---- MODULE Spec2Model ----
(***************************************************************************)
(* Model of ghouls: the branch-safety evaluator (isBranchSafeToDelete),    *)
(* the remote command (PrunePullRequest), the local command                *)
(* (PruneLocalBranches) and the combined command (pruneAllCommand).        *)
(*                                                                         *)
(* Conventions.  A JavaScript value that may be undefined or null is a     *)
(* sequence of length at most one: <<>> is undefined/null, << v >> is v.   *)
(* Branch names and regular expressions are sequences of one-character     *)
(* strings, so that toLowerCase and pattern matching are computed.         *)
(***************************************************************************)
EXTENDS Naturals, Sequences, FiniteSets, TLC

VARIABLES
  evalIn,     \* SpecSafety: the arguments of one isBranchSafeToDelete call
  evalOut,    \* SpecSafety: <<>> before the call, the one-element sequence of the result after it
  args,       \* the invocation: [command, dryRun, force, repoArg, inGitRepo, hasGitRemote]
  github,     \* the repository on GitHub: [prs, refs]
  repo,       \* the local clone: [branches, currentBranch, status]
  pc,         \* position of the running command
  remote,     \* locals of PrunePullRequest.perform
  local,      \* locals of PruneLocalBranches.perform
  all,        \* locals of pruneAllCommand.handler
  apiCalls,   \* getReference / deleteReference calls made, in order
  gitCalls,   \* deleteLocalBranch calls made, in order
  prompt,     \* SpecPrompt: one promptWithCancel call, <<>> elsewhere
  expand,     \* SpecExpand: one expandDefaultPlaceholder call
  loaded,     \* SpecConfig: one loadSafetyConfig call
  batch,      \* SpecBatch: one processBatches call
  opt,        \* SpecOptimized: one run of the optimized PruneLocalBranches.perform
  picker      \* SpecSelect: one createPaginatedCheckboxPrompt session

evalVars == <<evalIn, evalOut>>
runVars == <<args, github, repo, pc, remote, local, all, apiCalls, gitCalls>>
auxVars == <<prompt, expand, loaded, batch, opt, picker>>
vars == <<evalIn, evalOut, args, github, repo, pc, remote, local, all, apiCalls, gitCalls,
         prompt, expand, loaded, batch, opt, picker>>

None == <<>>
Some(v) == << v >>
IsSome(o) == o # <<>>
Get(o) == o[1]

(***************************************************************************)
(* Strings as character sequences                                          *)
(***************************************************************************)
UpperChars == <<"A","B","C","D","E","F","G","H","I","J","K","L","M",
                "N","O","P","Q","R","S","T","U","V","W","X","Y","Z">>
LowerChars == <<"a","b","c","d","e","f","g","h","i","j","k","l","m",
                "n","o","p","q","r","s","t","u","v","w","x","y","z">>

toLowerChar(c) ==
  IF \E i \in 1..Len(UpperChars) : UpperChars[i] = c
  THEN LowerChars[CHOOSE i \in 1..Len(UpperChars) : UpperChars[i] = c]
  ELSE c

\* String.prototype.toLowerCase
toLowerCase(s) == [i \in 1..Len(s) |-> toLowerChar(s[i])]

\* Array.prototype.includes
includes(list, v) == \E i \in 1..Len(list) : list[i] = v

\* Array.prototype.map(b => b.toLowerCase())
mapToLowerCase(list) == [i \in 1..Len(list) |-> toLowerCase(list[i])]

\* text occurs in s starting at position k (1-based)
OccursAt(text, s, k) ==
  /\ k + Len(text) - 1 <= Len(s)
  /\ \A i \in 1..Len(text) : s[k + i - 1] = text[i]

\* new RegExp(pattern) throws for an unbalanced group
IsValidRegex(pattern) == ~ includes(pattern, "(")

\* new RegExp(pattern, 'i').test(name), for the patterns the model uses:
\* a literal text, optionally anchored at the start with ^
RegexTestIgnoreCase(pattern, name) ==
  LET p == toLowerCase(pattern)
      n == toLowerCase(name)
  IN IF Len(p) > 0 /\ p[1] = "^"
     THEN OccursAt(Tail(p), n, 1)
     ELSE \E k \in 1..(Len(n) + 1) : OccursAt(p, n, k)

(***************************************************************************)
(* src/types/config.ts                                                     *)
(***************************************************************************)
nMain == <<"m","a","i","n">>
nMaster == <<"m","a","s","t","e","r">>
nDevelop == <<"d","e","v","e","l","o","p">>
nDev == <<"d","e","v">>
nStaging == <<"s","t","a","g","i","n","g">>
nProduction == <<"p","r","o","d","u","c","t","i","o","n">>
nProd == <<"p","r","o","d">>

DEFAULT_PROTECTED_BRANCHES ==
  <<nMain, nMaster, nDevelop, nDev, nStaging, nProduction, nProd>>

DEFAULT_SAFETY_CONFIG ==
  [protectedBranches |-> Some(DEFAULT_PROTECTED_BRANCHES),
   additionalProtectedPatterns |-> Some(<<>>),
   allowUnpushedCommits |-> Some(FALSE),
   requireMergedPR |-> Some(TRUE),
   customSafetyRules |-> Some(<<>>)]

EmptySafetyConfig ==
  [protectedBranches |-> None,
   additionalProtectedPatterns |-> None,
   allowUnpushedCommits |-> None,
   requireMergedPR |-> None,
   customSafetyRules |-> None]

\* a || b for an optional array: [] is truthy, undefined is not
OrElse(o, d) == IF IsSome(o) THEN Get(o) ELSE d

\* One iteration of the loop of mergeSafetyConfig: fold config c into merged
MergeOne(merged, c) ==
  [protectedBranches |->
     IF IsSome(c.protectedBranches) THEN c.protectedBranches
     ELSE merged.protectedBranches,
   additionalProtectedPatterns |->
     IF IsSome(c.additionalProtectedPatterns)
     THEN Some(OrElse(merged.additionalProtectedPatterns, <<>>)
               \o Get(c.additionalProtectedPatterns))
     ELSE merged.additionalProtectedPatterns,
   allowUnpushedCommits |->
     IF IsSome(c.allowUnpushedCommits) THEN c.allowUnpushedCommits
     ELSE merged.allowUnpushedCommits,
   requireMergedPR |->
     IF IsSome(c.requireMergedPR) THEN c.requireMergedPR
     ELSE merged.requireMergedPR,
   customSafetyRules |->
     IF IsSome(c.customSafetyRules)
     THEN Some(OrElse(merged.customSafetyRules, <<>>) \o Get(c.customSafetyRules))
     ELSE merged.customSafetyRules]

\* mergeSafetyConfig(...configs): configs is a sequence of optional configs,
\* folded left to right; an undefined config is skipped
RECURSIVE MergeFrom(_, _)
MergeFrom(merged, configs) ==
  IF configs = <<>> THEN merged
  ELSE MergeFrom(IF IsSome(Head(configs)) THEN MergeOne(merged, Get(Head(configs)))
                 ELSE merged,
                 Tail(configs))

mergeSafetyConfig(configs) == MergeFrom(EmptySafetyConfig, configs)

getEffectiveSafetyConfig(config) ==
  LET merged == mergeSafetyConfig(<<Some(DEFAULT_SAFETY_CONFIG), config>>)
  IN [protectedBranches |->
        OrElse(merged.protectedBranches, Get(DEFAULT_SAFETY_CONFIG.protectedBranches)),
      additionalProtectedPatterns |->
        OrElse(merged.additionalProtectedPatterns,
               Get(DEFAULT_SAFETY_CONFIG.additionalProtectedPatterns)),
      allowUnpushedCommits |->
        OrElse(merged.allowUnpushedCommits,
               Get(DEFAULT_SAFETY_CONFIG.allowUnpushedCommits)),
      requireMergedPR |->
        OrElse(merged.requireMergedPR, Get(DEFAULT_SAFETY_CONFIG.requireMergedPR)),
      customSafetyRules |->
        OrElse(merged.customSafetyRules, Get(DEFAULT_SAFETY_CONFIG.customSafetyRules))]

(***************************************************************************)
(* src/utils/branchSafetyChecks.ts                                         *)
(***************************************************************************)
RECURSIVE JoinChars(_)
JoinChars(s) == IF s = <<>> THEN "" ELSE Head(s) \o JoinChars(Tail(s))

Safe == [safe |-> TRUE]
\* Mutant of Unsafe: a return path that leaves the reason out
Unsafe_WithoutReason(reason) == [safe |-> FALSE]

Unsafe(reason) == [safe |-> FALSE, reason |-> reason]

\* `${branchStatus.ahead} unpushed commit${branchStatus.ahead === 1 ? '' : 's'}`
UnpushedReason(ahead) ==
  ToString(ahead) \o " unpushed commit" \o (IF ahead = 1 THEN "" ELSE "s")

\* Mutant of isCurrentBranch: the name comparison is dropped
isCurrentBranch_FlagOnly(branch, currentBranch) == branch.isCurrent

\* branch.isCurrent || branch.name === currentBranch
isCurrentBranch(branch, currentBranch) ==
  branch.isCurrent \/ branch.name = currentBranch

\* Mutant of isProtectedName: the comparison is case-sensitive
isProtectedName_CaseSensitive(protectedBranches, name) ==
  includes(protectedBranches, name)

\* protectedBranches.includes(branch.name.toLowerCase()), with protectedBranches
\* the effective list mapped to lower case
isProtectedName(protectedBranches, name) ==
  includes(mapToLowerCase(protectedBranches), toLowerCase(name))

\* The loop over additionalProtectedPatterns: the index of the first valid
\* pattern that matches the name, 0 when none does (invalid patterns are skipped)
FirstMatchingPattern(patterns, name) ==
  LET hits == {i \in 1..Len(patterns) :
                 IsValidRegex(patterns[i]) /\ RegexTestIgnoreCase(patterns[i], name)}
  IN IF hits = {} THEN 0 ELSE CHOOSE i \in hits : \A j \in hits : i <= j

\* The loop over customSafetyRules, likewise
FirstMatchingRule(rules, name) ==
  LET hits == {i \in 1..Len(rules) :
                 IsValidRegex(rules[i].pattern)
                 /\ RegexTestIgnoreCase(rules[i].pattern, name)}
  IN IF hits = {} THEN 0 ELSE CHOOSE i \in hits : \A j \in hits : i <= j

\* Mutant of PRGuard: the test of the merge commit is inverted
PRGuard_MergedInverted(branch, matchingPR, requireMergedPR) ==
  IF ~ IsSome(matchingPR) THEN None
  ELSE IF branch.sha # Get(matchingPR).head.sha
       THEN Some("SHA mismatch with PR head")
  ELSE IF requireMergedPR /\ IsSome(Get(matchingPR).merge_commit_sha)
       THEN Some("PR was not merged")
  ELSE None

\* The matching-PR block: <<>> when it lets the branch through, else the reason
PRGuard(branch, matchingPR, requireMergedPR) ==
  IF ~ IsSome(matchingPR) THEN None
  ELSE IF branch.sha # Get(matchingPR).head.sha
       THEN Some("SHA mismatch with PR head")
  ELSE IF requireMergedPR /\ ~ IsSome(Get(matchingPR).merge_commit_sha)
       THEN Some("PR was not merged")
  ELSE None

\* parseInt(text, 10) || 0: <<>> is a text that parses to NaN
parseIntOrZero(parsed) == IF IsSome(parsed) THEN Get(parsed) ELSE 0

\* getBranchStatus on what git answers for the branch.  kind "throws": an
\* execaSync call throws; "no-upstream": rev-parse prints nothing;
\* "malformed": rev-list does not print two tab-separated parts; "counts":
\* it prints the parts behind and ahead
getBranchStatusOf(git) ==
  IF git.kind = "throws" THEN None
  ELSE IF git.kind = "no-upstream" THEN Some([ahead |-> 0, behind |-> 0])
  ELSE IF git.kind = "malformed" THEN None
  ELSE Some([ahead |-> parseIntOrZero(git.ahead), behind |-> parseIntOrZero(git.behind)])

\* Mutant of UnpushedGuard: a status that could not be determined makes the
\* branch unsafe
UnpushedGuard_UnknownIsUnsafe(allowUnpushedCommits, branchStatus) ==
  IF allowUnpushedCommits THEN None
  ELSE IF ~ IsSome(branchStatus) THEN Some("unknown unpushed commits")
  ELSE IF Get(branchStatus).ahead > 0 THEN Some(UnpushedReason(Get(branchStatus).ahead))
  ELSE None

\* The unpushed-commits block; branchStatus is what getBranchStatus(branch.name)
\* returns: <<>> for null, <<[ahead |-> n]>> otherwise
UnpushedGuard(allowUnpushedCommits, branchStatus) ==
  IF ~ allowUnpushedCommits /\ IsSome(branchStatus) /\ Get(branchStatus).ahead > 0
  THEN Some(UnpushedReason(Get(branchStatus).ahead))
  ELSE None

\* Mutant of isBranchSafeToDelete: the unpushed-commits block runs before the
\* matching-PR block
isBranchSafeToDelete_UnpushedFirst(branch, currentBranch, matchingPR, config, branchStatus) ==
  LET effectiveConfig == getEffectiveSafetyConfig(config)
      pat == FirstMatchingPattern(effectiveConfig.additionalProtectedPatterns,
                                  branch.name)
      rule == FirstMatchingRule(effectiveConfig.customSafetyRules, branch.name)
      prGuard == PRGuard(branch, matchingPR, effectiveConfig.requireMergedPR)
      unpushed == UnpushedGuard(effectiveConfig.allowUnpushedCommits, branchStatus)
  IN IF isCurrentBranch(branch, currentBranch) THEN Unsafe("current branch")
     ELSE IF isProtectedName(effectiveConfig.protectedBranches, branch.name)
          THEN Unsafe("protected branch")
     ELSE IF pat # 0
          THEN Unsafe("matches protected pattern: "
                      \o JoinChars(effectiveConfig.additionalProtectedPatterns[pat]))
     ELSE IF rule # 0 THEN Unsafe(effectiveConfig.customSafetyRules[rule].reason)
     ELSE IF IsSome(unpushed) THEN Unsafe(Get(unpushed))
     ELSE IF IsSome(prGuard) THEN Unsafe(Get(prGuard))
     ELSE Safe

isBranchSafeToDelete(branch, currentBranch, matchingPR, config, branchStatus) ==
  LET effectiveConfig == getEffectiveSafetyConfig(config)
      pat == FirstMatchingPattern(effectiveConfig.additionalProtectedPatterns,
                                  branch.name)
      rule == FirstMatchingRule(effectiveConfig.customSafetyRules, branch.name)
      prGuard == PRGuard(branch, matchingPR, effectiveConfig.requireMergedPR)
      unpushed == UnpushedGuard(effectiveConfig.allowUnpushedCommits, branchStatus)
  IN IF isCurrentBranch(branch, currentBranch) THEN Unsafe("current branch")
     ELSE IF isProtectedName(effectiveConfig.protectedBranches, branch.name)
          THEN Unsafe("protected branch")
     ELSE IF pat # 0
          THEN Unsafe("matches protected pattern: "
                      \o JoinChars(effectiveConfig.additionalProtectedPatterns[pat]))
     ELSE IF rule # 0 THEN Unsafe(effectiveConfig.customSafetyRules[rule].reason)
     ELSE IF IsSome(prGuard) THEN Unsafe(Get(prGuard))
     ELSE IF IsSome(unpushed) THEN Unsafe(Get(unpushed))
     ELSE Safe

(***************************************************************************)
(* SpecSafety: one call of isBranchSafeToDelete on bounded inputs          *)
(***************************************************************************)
MaxAhead == 2

nMAIN == <<"M","a","i","n">>
nFeature1 == <<"f","e","a","t","-","1">>
nReleaseSlash == <<"r","e","l","e","a","s","e","/","1">>
nReleaseDash == <<"r","e","l","e","a","s","e","-","1">>
nHotfix == <<"h","o","t","f","i","x","/","x">>
nWip == <<"W","I","P","-","x">>
nCustom == <<"k","e","e","p">>
nKEEP == <<"K","E","E","P">>

BranchNames ==
  {nMain, nMAIN, nDev, nFeature1, nReleaseSlash, nReleaseDash, nHotfix, nWip, nKEEP}

Shas == {"abc123", "def456"}

rxWip == <<"^","w","i","p">>
rxInvalid == <<"(">>
rxFeat == <<"e","a","t">>

SafetyConfigs ==
  [protectedBranches : {None, Some(<<>>), Some(<<nCustom, nStaging>>)},
   additionalProtectedPatterns : {None, Some(<<rxInvalid, rxWip>>)},
   allowUnpushedCommits : {None, Some(TRUE)},
   requireMergedPR : {None, Some(FALSE)},
   customSafetyRules :
     {None, Some(<<[name |-> "features", pattern |-> rxFeat, reason |-> "feature freeze"]>>)}]

Repo(owner, name) == [owner |-> [login |-> owner], name |-> name, fork |-> FALSE]

\* A pull request as the evaluator reads it
EvalPR(ref, sha, merged) ==
  [number |-> 1,
   head |-> [ref |-> ref, sha |-> sha, repo |-> Some(Repo("user", "test-repo"))],
   base |-> [ref |-> nMain, sha |-> "base-sha", repo |-> Some(Repo("user", "test-repo"))],
   merge_commit_sha |-> IF merged THEN Some("merge-sha") ELSE None]

\* What git can answer when getBranchStatus asks about a branch
GitAnswers ==
  {[kind |-> k, ahead |-> None, behind |-> None] : k \in {"throws", "no-upstream", "malformed"}}
    \cup {[kind |-> "counts", ahead |-> a, behind |-> Some(0)] :
            a \in {None} \cup {Some(n) : n \in 0..MaxAhead}}

\* The arguments of a call, with the answer of git about the branch and the
\* status getBranchStatus makes of it
EvalInputs ==
  {[branch |-> b, currentBranch |-> c, matchingPR |-> pr, config |-> cfg,
    git |-> g, branchStatus |-> getBranchStatusOf(g)] :
     b \in [name : BranchNames, sha : Shas, isCurrent : BOOLEAN],
     c \in {nMain, nFeature1},
     pr \in {None} \cup {Some(EvalPR(nFeature1, s, m)) : s \in Shas, m \in BOOLEAN},
     cfg \in {None} \cup {Some(x) : x \in SafetyConfigs},
     g \in GitAnswers}

SafetyIdle == evalIn = None /\ evalOut = None

\* No prompt is open and none of the functions checked on their own is running
PromptIdle ==
  /\ prompt = None /\ expand = None /\ loaded = None
  /\ batch = None /\ opt = None /\ picker = None

\* No command is running (the specifications of pure functions)
RunIdle ==
  /\ args = None /\ github = None /\ repo = None /\ pc = "idle"
  /\ remote = None /\ local = None /\ all = None
  /\ apiCalls = <<>> /\ gitCalls = <<>>

InitSafety ==
  /\ evalIn \in {Some(i) : i \in EvalInputs} /\ evalOut = None
  /\ RunIdle /\ PromptIdle

Evaluate ==
  /\ IsSome(evalIn) /\ evalOut = None
  /\ evalOut' = Some(isBranchSafeToDelete(Get(evalIn).branch, Get(evalIn).currentBranch,
                                          Get(evalIn).matchingPR, Get(evalIn).config,
                                          Get(evalIn).branchStatus))
  /\ UNCHANGED <<evalIn, auxVars, runVars>>

NextSafety == Evaluate

SpecSafety == InitSafety /\ [][NextSafety]_vars

(***************************************************************************)
(* The world a command runs against                                        *)
(***************************************************************************)
MaxPRs == 2

nFeature2 == <<"f","e","a","t","-","2">>

BaseRepo == Repo("owner", "repo")
ForkRepo == Repo("contributor", "repo")

\* A closed pull request of the base repository (OctokitPlus.PullRequest)
PullRequest(number, ref, sha, headRepo, merged) ==
  [number |-> number,
   head |-> [ref |-> ref, sha |-> sha, repo |-> headRepo],
   base |-> [ref |-> nMain, sha |-> "base-sha", repo |-> Some(BaseRepo)],
   merge_commit_sha |-> IF merged THEN Some("merge-sha") ELSE None]

PRPool ==
  {PullRequest(0, nFeature1, "abc123", Some(BaseRepo), TRUE),
   PullRequest(0, nFeature1, "def456", Some(BaseRepo), TRUE),
   PullRequest(0, nFeature1, "abc123", Some(BaseRepo), FALSE),
   PullRequest(0, nFeature1, "abc123", Some(ForkRepo), TRUE),
   PullRequest(0, nFeature1, "abc123", None, TRUE),
   PullRequest(0, nFeature2, "abc123", Some(BaseRepo), TRUE)}

\* The closed pull requests in the order the API lists them, numbered by position
Streams(pool) ==
  UNION {{[i \in 1..k |-> [f[i] EXCEPT !.number = i]] : f \in [1..k -> pool]}
         : k \in 0..MaxPRs}

\* What GET /git/ref/heads/NAME answers: 404, a list of sibling refs, or the ref
RefMissing == [kind |-> "missing"]
RefSiblings == [kind |-> "siblings"]
RefAt(sha) == [kind |-> "ref", sha |-> sha]

RefNames == {nFeature1, nFeature2}

RefWorlds ==
  {[n \in RefNames |-> IF n = nFeature1 THEN a ELSE b] :
     a \in {RefMissing, RefSiblings, RefAt("abc123"), RefAt("def456")},
     b \in {RefMissing, RefAt("abc123")}}

NoRefs == [n \in RefNames |-> RefMissing]

LocalBranch(name, sha, isCurrent) == [name |-> name, sha |-> sha, isCurrent |-> isCurrent]

\* A clone: its branches as git lists them, the checked-out branch (<<>> is the
\* empty string of a detached HEAD), and what getBranchStatus finds for feat-1
Clone(branches, currentBranch, status1) ==
  [branches |-> branches,
   currentBranch |-> currentBranch,
   status |-> [n \in {branches[i].name : i \in 1..Len(branches)} |->
                 IF n = nFeature1 THEN status1
                 ELSE Some([ahead |-> 0, behind |-> 0])]]

BranchLists ==
  {<< <<>>, <<>> >>,
   << <<LocalBranch(nFeature1, "abc123", FALSE), LocalBranch(nMain, "base-sha", TRUE)>>,
      nMain >>,
   << <<LocalBranch(nFeature1, "abc123", TRUE), LocalBranch(nMain, "base-sha", FALSE)>>,
      nFeature1 >>,
   << <<LocalBranch(nFeature1, "abc123", FALSE), LocalBranch(nFeature2, "abc123", FALSE),
        LocalBranch(nMain, "base-sha", TRUE)>>,
      nMain >>,
   << <<LocalBranch(nFeature1, "abc123", FALSE), LocalBranch(nFeature2, "abc123", FALSE)>>,
      <<>> >>}

Statuses == {getBranchStatusOf(g) : g \in GitAnswers}

Clones == {Clone(bl[1], bl[2], st) : bl \in BranchLists, st \in Statuses}

NoClone == Clone(<<>>, <<>>, None)

(***************************************************************************)
(* ownerAndRepoMatch, getReference, deleteReference                        *)
(***************************************************************************)
\* ownerAndRepoMatch(a, b): both references have a repository, with the same
\* owner login and the same name (exact comparison)
ownerAndRepoMatch(a, b) ==
  /\ IsSome(a.repo) /\ IsSome(b.repo)
  /\ Get(a.repo).owner.login = Get(b.repo).owner.login
  /\ Get(a.repo).name = Get(b.repo).name

\* Mutant of getReferenceThrows: the 404 of getRef is not converted
getReferenceThrows_On404(prRef) ==
  ~ IsSome(prRef.repo) \/ github.refs[prRef.ref].kind = "missing"

\* OctokitPlus.getReference throws when the reference has no repository
getReferenceThrows(prRef) == ~ IsSome(prRef.repo)

\* OctokitPlus.getReference: undefined for a 404 and for a list of sibling
\* refs, the Reference otherwise
getReference(prRef) ==
  LET answer == github.refs[prRef.ref]
  IN IF answer.kind = "ref" THEN Some([ref |-> prRef.ref, object |-> [sha |-> answer.sha]])
     ELSE None

\* The outcomes deleteReference can have: it rejects when the ref is gone,
\* and may reject for any other API error
deleteReferenceOutcomes(prRef) ==
  IF github.refs[prRef.ref].kind = "ref" THEN {TRUE, FALSE} ELSE {FALSE}

(***************************************************************************)
(* src/commands/PrunePullRequests.ts: PrunePullRequest (the remote command) *)
(***************************************************************************)
RemoteInit ==
  [idx |-> 1, branchesToDelete |-> <<>>, selectedBranches |-> <<>>, pos |-> 1,
   deletedCount |-> 0, errorCount |-> 0, reported |-> <<>>, cancelled |-> FALSE,
   error |-> None]

\* Mutant of recordOutcome: the catch block does not count the error
recordOutcome_ErrorsUncounted(run, name, line) ==
  [run EXCEPT !.pos = @ + 1,
              !.deletedCount = IF line = "error" THEN @ ELSE @ + 1,
              !.reported = Append(@, [name |-> name, line |-> line])]

\* Mutant of recordOutcome: deletedCount++ sits in the live branch only
recordOutcome_DryRunUncounted(run, name, line) ==
  [run EXCEPT !.pos = @ + 1,
              !.deletedCount = IF line = "deleted" THEN @ + 1 ELSE @,
              !.errorCount = IF line = "error" THEN @ + 1 ELSE @,
              !.reported = Append(@, [name |-> name, line |-> line])]

\* The body of a deletion loop after its try block: the line printed for the
\* branch ("would-delete", "deleted" or "error"), deletedCount++ at the end
\* of the try block, errorCount++ in the catch block, and the next iteration
recordOutcome(run, name, line) ==
  [run EXCEPT !.pos = @ + 1,
              !.deletedCount = IF line = "error" THEN @ ELSE @ + 1,
              !.errorCount = IF line = "error" THEN @ + 1 ELSE @,
              !.reported = Append(@, [name |-> name, line |-> line])]

\* Mutant of isCandidatePR: a pull request without a merge commit is kept
isCandidatePR_Unmerged(pr) == ownerAndRepoMatch(pr.head, pr.base)

\* The filter of collectDeletableBranches:
\* !(!pr.merge_commit_sha || !ownerAndRepoMatch(pr.head, pr.base))
isCandidatePR(pr) ==
  IsSome(pr.merge_commit_sha) /\ ownerAndRepoMatch(pr.head, pr.base)

\* `heads/${pr.head.ref}`
HeadsRef(name) == <<"h","e","a","d","s","/">> \o name

\* Mutant of refMatchesPR: the SHA comparison is dropped
refMatchesPR_AnySha(ref, pr) == IsSome(ref)

\* The two tests after the lookup: the ref exists and ref.object.sha === pr.head.sha
refMatchesPR(ref, pr) == IsSome(ref) /\ Get(ref).object.sha = pr.head.sha

\* The handler: the repository is taken from the argument or the git remote
RemoteHandlerStart ==
  /\ pc = "r_start"
  /\ pc' = IF ~ args.repoArg /\ ~ args.hasGitRemote THEN "r_failed" ELSE "r_collect"
  /\ remote' = [remote EXCEPT !.error = IF ~ args.repoArg /\ ~ args.hasGitRemote
                                        THEN Some("handler") ELSE None]
  /\ all' = [all EXCEPT !.trace = Append(@, "remote:start")]
  /\ UNCHANGED <<evalVars, auxVars, args, github, repo, local, apiCalls, gitCalls>>

\* One iteration of the loop of collectDeletableBranches
RemoteExaminePR ==
  /\ pc = "r_collect"
  /\ remote.idx <= Len(github.prs)
  /\ LET pr == github.prs[remote.idx] IN
       IF ~ isCandidatePR(pr)
       THEN /\ remote' = [remote EXCEPT !.idx = @ + 1]
            /\ UNCHANGED <<pc, apiCalls>>
       ELSE IF getReferenceThrows(pr.head)
       THEN /\ pc' = "r_failed"
            /\ remote' = [remote EXCEPT !.error = Some("getReference")]
            /\ UNCHANGED apiCalls
       ELSE LET ref == getReference(pr.head) IN
            /\ apiCalls' = Append(apiCalls,
                 [op |-> "getReference", pr |-> pr.number, ref |-> pr.head.ref,
                  answer |-> github.refs[pr.head.ref], ok |-> TRUE])
            /\ remote' = [remote EXCEPT
                 !.idx = @ + 1,
                 !.branchesToDelete =
                    IF refMatchesPR(ref, pr)
                    THEN Append(@, [ref |-> HeadsRef(pr.head.ref), pr |-> pr])
                    ELSE @]
            /\ pc' = pc
  /\ UNCHANGED <<evalVars, auxVars, args, github, repo, local, all, gitCalls>>

\* A request of the collection (a page of pull requests, a ref lookup) is
\* rejected with an error other than 404: perform rejects
RemoteApiError ==
  /\ pc = "r_collect"
  /\ remote.idx <= Len(github.prs) + 1
  /\ pc' = "r_failed"
  /\ remote' = [remote EXCEPT !.error = Some("request")]
  /\ UNCHANGED <<evalVars, auxVars, args, github, repo, local, all, apiCalls, gitCalls>>

\* Mutant of RemoteCollected: the deletion starts before the stream has ended
RemoteCollected_BeforeStreamEnds ==
  /\ pc = "r_collect"
  /\ IF Len(remote.branchesToDelete) = 0
     THEN pc' = "r_done" /\ UNCHANGED remote
     ELSE IF ~ args.force /\ ~ args.dryRun
     THEN pc' = "r_prompt" /\ UNCHANGED remote
     ELSE /\ pc' = "r_delete"
          /\ remote' = [remote EXCEPT !.selectedBranches = remote.branchesToDelete]
  /\ UNCHANGED <<evalVars, auxVars, args, github, repo, local, all, apiCalls, gitCalls>>

\* perform, from the end of the collection to the choice of the mode
RemoteCollected ==
  /\ pc = "r_collect"
  /\ remote.idx > Len(github.prs)
  /\ IF Len(remote.branchesToDelete) = 0
     THEN pc' = "r_done" /\ UNCHANGED remote
     ELSE IF ~ args.force /\ ~ args.dryRun
     THEN pc' = "r_prompt" /\ UNCHANGED remote
     ELSE /\ pc' = "r_delete"
          /\ remote' = [remote EXCEPT !.selectedBranches = remote.branchesToDelete]
  /\ UNCHANGED <<evalVars, auxVars, args, github, repo, local, all, apiCalls, gitCalls>>

\* branchesToDelete.filter(({ ref }) => selected.includes(ref))
FilterByRef(branches, selected) == SelectSeq(branches, LAMBDA b : b.ref \in selected)

\* What a prompt of inquirer can do: answer with a selection, reject with
\* ExitPromptError when the user presses Ctrl+C, or reject with another error
PromptOutcomes(choices) ==
  {[kind |-> "answers", selected |-> sel] : sel \in SUBSET choices}
    \cup {[kind |-> "ctrl-c", selected |-> {}], [kind |-> "error", selected |-> {}]}

\* The interactive mode: inquirer.prompt is awaited directly, so a rejection
\* of the prompt (Ctrl+C included) rejects perform
RemotePrompt ==
  /\ pc = "r_prompt"
  /\ \E outcome \in PromptOutcomes({remote.branchesToDelete[i].ref :
                                       i \in 1..Len(remote.branchesToDelete)}) :
       IF outcome.kind # "answers"
       THEN /\ pc' = "r_failed"
            /\ remote' = [remote EXCEPT !.cancelled = (outcome.kind = "ctrl-c"),
                                        !.error = Some("prompt")]
       ELSE IF outcome.selected = {}
       THEN pc' = "r_done" /\ UNCHANGED remote
       ELSE /\ pc' = "r_delete"
            /\ remote' = [remote EXCEPT
                 !.selectedBranches = FilterByRef(remote.branchesToDelete, outcome.selected)]
  /\ UNCHANGED <<evalVars, auxVars, args, github, repo, local, all, apiCalls, gitCalls>>

\* The test of the deletion loop: this.dryRun selects the simulated branch
RemoteMutates == ~ args.dryRun

\* One iteration of the deletion loop
RemoteDeleteOne ==
  /\ pc = "r_delete"
  /\ remote.pos <= Len(remote.selectedBranches)
  /\ LET b == remote.selectedBranches[remote.pos] IN
       IF ~ RemoteMutates
       THEN /\ remote' = recordOutcome(remote, b.ref, "would-delete")
            /\ UNCHANGED <<github, apiCalls>>
       ELSE \E ok \in deleteReferenceOutcomes(b.pr.head) :
            /\ apiCalls' = Append(apiCalls,
                 [op |-> "deleteReference", pr |-> b.pr.number, ref |-> b.pr.head.ref,
                  answer |-> github.refs[b.pr.head.ref], ok |-> ok])
            /\ github' = IF ok
                         THEN [github EXCEPT !.refs[b.pr.head.ref] = RefMissing]
                         ELSE github
            /\ remote' = recordOutcome(remote, b.ref, IF ok THEN "deleted" ELSE "error")
  /\ UNCHANGED <<evalVars, auxVars, args, repo, pc, local, all, gitCalls>>

\* The end of the loop and the summary
RemoteFinish ==
  /\ pc = "r_delete"
  /\ remote.pos > Len(remote.selectedBranches)
  /\ pc' = "r_done"
  /\ UNCHANGED <<evalVars, auxVars, args, github, repo, remote, local, all, apiCalls, gitCalls>>

(***************************************************************************)
(* src/commands/PruneLocalBranches.ts: PruneLocalBranches (the local command) *)
(***************************************************************************)
\* Map<string, PullRequest> as a function from the keys that were set
EmptyMap == [k \in {} |-> None]
MapSet(m, k, v) == [x \in (DOMAIN m) \cup {k} |-> IF x = k THEN v ELSE m[x]]
MapGet(m, k) == IF k \in DOMAIN m THEN Some(m[k]) ELSE None

LocalInit ==
  [localBranches |-> <<>>, currentBranch |-> <<>>,
   idx |-> 1, mergedPRs |-> EmptyMap, branchAnalysis |-> <<>>, branchesToDelete |-> <<>>,
   pos |-> 1, deletedCount |-> 0, errorCount |-> 0, reported |-> <<>>, cancelled |-> FALSE]

\* getBranchStatus(branch.name) in the clone of the run
getBranchStatus(name) == repo.status[name]

\* filterSafeBranches(branches, currentBranch, mergedPRs, config)
filterSafeBranches(branches, currentBranch, mergedPRs, config) ==
  [i \in 1..Len(branches) |->
     LET branch == branches[i]
         matchingPR == MapGet(mergedPRs, branch.name)
     IN [branch |-> branch,
         safetyCheck |-> isBranchSafeToDelete(branch, currentBranch, matchingPR, config,
                                              getBranchStatus(branch.name)),
         matchingPR |-> matchingPR]]

\* Mutant of safeBranchesOf: the verdict is not consulted
safeBranchesOf_All(branchAnalysis) == branchAnalysis

\* branchAnalysis.filter(analysis => analysis.safetyCheck.safe)
safeBranchesOf(branchAnalysis) == SelectSeq(branchAnalysis, LAMBDA a : a.safetyCheck.safe)

\* branchAnalysis.filter(analysis => !analysis.safetyCheck.safe)
unsafeBranchesOf(branchAnalysis) == SelectSeq(branchAnalysis, LAMBDA a : ~ a.safetyCheck.safe)

\* The handler: the checks that precede perform
LocalHandlerStart ==
  /\ pc = "l_start"
  /\ pc' = IF ~ args.inGitRepo THEN "l_failed"
           ELSE IF ~ args.repoArg /\ ~ args.hasGitRemote THEN "l_failed"
           ELSE "l_scan"
  /\ all' = [all EXCEPT !.trace = Append(@, "local:start")]
  /\ UNCHANGED <<evalVars, auxVars, args, github, repo, remote, local, apiCalls, gitCalls>>

\* perform, up to the test for an empty list of local branches
LocalScan ==
  /\ pc = "l_scan"
  /\ local' = [local EXCEPT !.localBranches = repo.branches,
                            !.currentBranch = repo.currentBranch]
  /\ pc' = IF Len(repo.branches) = 0 THEN "l_done" ELSE "l_fetch"
  /\ UNCHANGED <<evalVars, auxVars, args, github, repo, remote, all, apiCalls, gitCalls>>

\* One iteration of the loop of getMergedPRsMap
LocalFetchPR ==
  /\ pc = "l_fetch"
  /\ local.idx <= Len(github.prs)
  /\ LET pr == github.prs[local.idx] IN
       local' = [local EXCEPT
         !.idx = @ + 1,
         !.mergedPRs = IF IsSome(pr.merge_commit_sha) THEN MapSet(@, pr.head.ref, pr) ELSE @]
  /\ UNCHANGED <<evalVars, auxVars, args, github, repo, pc, remote, all, apiCalls, gitCalls>>

\* A page request of getPullRequests is rejected: perform rejects
LocalApiError ==
  /\ pc = "l_fetch"
  /\ pc' = "l_failed"
  /\ UNCHANGED <<evalVars, auxVars, args, github, repo, remote, local, all, apiCalls, gitCalls>>

\* perform, from the end of the fetch to the choice of the mode; the run
\* passes no configuration to filterSafeBranches
LocalAnalyze ==
  /\ pc = "l_fetch"
  /\ local.idx > Len(github.prs)
  /\ LET branchAnalysis == filterSafeBranches(local.localBranches, local.currentBranch,
                                              local.mergedPRs, None)
         safeBranches == safeBranchesOf(branchAnalysis)
     IN IF Len(safeBranches) = 0
        THEN /\ pc' = "l_done"
             /\ local' = [local EXCEPT !.branchAnalysis = branchAnalysis]
        ELSE IF ~ args.force /\ ~ args.dryRun
        THEN /\ pc' = "l_prompt"
             /\ local' = [local EXCEPT !.branchAnalysis = branchAnalysis]
        ELSE /\ pc' = "l_delete"
             /\ local' = [local EXCEPT !.branchAnalysis = branchAnalysis,
                                       !.branchesToDelete = safeBranches]
  /\ UNCHANGED <<evalVars, auxVars, args, github, repo, remote, all, apiCalls, gitCalls>>

\* safeBranches.filter(({ branch }) => result.selectedBranches.includes(branch.name))
FilterByName(branches, selected) == SelectSeq(branches, LAMBDA a : a.branch.name \in selected)

\* The interactive mode: promptWithCancel answers null (Escape) or the names
\* the user left checked, ends the process with status 0 on Ctrl+C
\* (ExitPromptError), and rejects on any other error of the prompt
LocalPrompt ==
  /\ pc = "l_prompt"
  /\ LET safeBranches == safeBranchesOf(local.branchAnalysis) IN
     \E outcome \in PromptOutcomes({safeBranches[i].branch.name : i \in 1..Len(safeBranches)})
                      \cup {[kind |-> "escape", selected |-> {}]} :
       IF outcome.kind = "escape"
       THEN pc' = "l_done" /\ local' = [local EXCEPT !.cancelled = TRUE]
       ELSE IF outcome.kind = "ctrl-c"
       THEN pc' = "exit0" /\ local' = [local EXCEPT !.cancelled = TRUE]
       ELSE IF outcome.kind = "error"
       THEN pc' = "l_failed" /\ UNCHANGED local
       ELSE IF outcome.selected = {}
       THEN pc' = "l_done" /\ UNCHANGED local
       ELSE /\ pc' = "l_delete"
            /\ local' = [local EXCEPT
                 !.branchesToDelete = FilterByName(safeBranches, outcome.selected)]
  /\ UNCHANGED <<evalVars, auxVars, args, github, repo, remote, all, apiCalls, gitCalls>>

\* Mutant of LocalMutates: the dry-run flag is not consulted
LocalMutates_Always == TRUE

\* The test of the deletion loop: this.dryRun selects the simulated branch
LocalMutates == ~ args.dryRun

\* git branch -D NAME in the clone
removeBranch(branches, name) == SelectSeq(branches, LAMBDA b : b.name # name)

\* One iteration of the deletion loop; deleteLocalBranch throws when git fails
LocalDeleteOne ==
  /\ pc = "l_delete"
  /\ local.pos <= Len(local.branchesToDelete)
  /\ LET a == local.branchesToDelete[local.pos] IN
       IF ~ LocalMutates
       THEN /\ local' = recordOutcome(local, a.branch.name, "would-delete")
            /\ UNCHANGED <<repo, gitCalls>>
       ELSE \E ok \in BOOLEAN :
            /\ gitCalls' = Append(gitCalls,
                 [op |-> "deleteLocalBranch", branch |-> a.branch.name, ok |-> ok])
            /\ repo' = IF ok
                       THEN [repo EXCEPT !.branches = removeBranch(@, a.branch.name)]
                       ELSE repo
            /\ local' = recordOutcome(local, a.branch.name, IF ok THEN "deleted" ELSE "error")
  /\ UNCHANGED <<evalVars, auxVars, args, github, pc, remote, all, apiCalls>>

\* The end of the loop and the summary
LocalFinish ==
  /\ pc = "l_delete"
  /\ local.pos > Len(local.branchesToDelete)
  /\ pc' = "l_done"
  /\ UNCHANGED <<evalVars, auxVars, args, github, repo, remote, local, all, apiCalls, gitCalls>>

(***************************************************************************)
(* src/commands/PruneAll.ts: pruneAllCommand (the combined command)        *)
(***************************************************************************)
\* trace: the handler invocations and the outcomes the combined handler
\* observed, in order
AllInit ==
  [remoteSuccess |-> FALSE, localSuccess |-> FALSE, exitCode |-> None, trace |-> <<>>]

\* The handler, up to the start of phase 1; a rejected check ends the command
AllHandlerStart ==
  /\ pc = "a_start"
  /\ pc' = IF ~ args.repoArg /\ ~ args.inGitRepo THEN "a_failed"
           ELSE IF ~ args.repoArg /\ ~ args.hasGitRemote THEN "a_failed"
           ELSE "r_start"
  /\ UNCHANGED <<evalVars, auxVars, args, github, repo, remote, local, all, apiCalls, gitCalls>>

\* Mutant of AllAfterRemote: phase 1 is not wrapped in try/catch, a rejected
\* remote handler rejects the combined handler
AllAfterRemote_Rethrows ==
  /\ pc \in {"r_done", "r_failed"}
  /\ args.command = "all"
  /\ all' = [all EXCEPT !.remoteSuccess = (pc = "r_done"),
                        !.trace = Append(@, IF pc = "r_done" THEN "remote:done"
                                            ELSE "remote:failed")]
  /\ pc' = IF pc = "r_done" THEN "l_start" ELSE "a_failed"
  /\ UNCHANGED <<evalVars, auxVars, args, github, repo, remote, local, apiCalls, gitCalls>>

\* Phase 1 has settled: remoteSuccess is set iff the remote handler resolved,
\* and phase 2 starts in both cases
AllAfterRemote ==
  /\ pc \in {"r_done", "r_failed"}
  /\ args.command = "all"
  /\ all' = [all EXCEPT !.remoteSuccess = (pc = "r_done"),
                        !.trace = Append(@, IF pc = "r_done" THEN "remote:done"
                                            ELSE "remote:failed")]
  /\ pc' = "l_start"
  /\ UNCHANGED <<evalVars, auxVars, args, github, repo, remote, local, apiCalls, gitCalls>>

\* Mutant of exitCodeOf: any failed phase makes the exit status 1
exitCodeOf_AnyFailure(remoteSuccess, localSuccess) ==
  IF ~ remoteSuccess \/ ~ localSuccess THEN Some(1) ELSE None

\* The exit status of the final summary: process.exit(1) when both phases
\* failed, process.exit(0) when one did, a normal return otherwise
exitCodeOf(remoteSuccess, localSuccess) ==
  IF ~ remoteSuccess /\ ~ localSuccess THEN Some(1)
  ELSE IF ~ remoteSuccess \/ ~ localSuccess THEN Some(0)
  ELSE None

\* Phase 2 has settled: the final summary
AllSummary ==
  /\ pc \in {"l_done", "l_failed"}
  /\ args.command = "all"
  /\ all' = [all EXCEPT !.localSuccess = (pc = "l_done"),
                        !.exitCode = exitCodeOf(all.remoteSuccess, pc = "l_done"),
                        !.trace = Append(@, IF pc = "l_done" THEN "local:done"
                                            ELSE "local:failed")]
  /\ pc' = "a_exit"
  /\ UNCHANGED <<evalVars, auxVars, args, github, repo, remote, local, apiCalls, gitCalls>>

(***************************************************************************)
(* The commands as one state machine                                       *)
(***************************************************************************)
Args(command, dryRun, force, env) ==
  [command |-> command, dryRun |-> dryRun, force |-> force,
   repoArg |-> env[1], inGitRepo |-> env[2], hasGitRemote |-> env[3]]

\* <<repo argument given, inside a git repository, git remote detected>>
EnvInClone == <<FALSE, TRUE, TRUE>>
EnvRepoArgOnly == <<TRUE, FALSE, FALSE>>
EnvNoRemote == <<FALSE, TRUE, FALSE>>
EnvNowhere == <<FALSE, FALSE, FALSE>>
FailingEnvs == {EnvRepoArgOnly, EnvNoRemote, EnvNowhere}

RunStart(startPc) ==
  /\ pc = startPc
  /\ remote = RemoteInit /\ local = LocalInit /\ all = AllInit
  /\ apiCalls = <<>> /\ gitCalls = <<>>
  /\ SafetyIdle /\ PromptIdle

\* The world of the environments in which a handler check fails
SmallWorld ==
  /\ github = [prs |-> <<PullRequest(1, nFeature1, "abc123", Some(BaseRepo), TRUE)>>,
               refs |-> [n \in RefNames |-> RefAt("abc123")]]
  /\ repo = Clone(<<LocalBranch(nFeature1, "abc123", FALSE), LocalBranch(nMain, "base-sha", TRUE)>>,
                  nMain, Some([ahead |-> 0, behind |-> 0]))

InitRemote ==
  /\ RunStart("r_start")
  /\ \/ /\ args \in {Args("remote", d, f, EnvInClone) : d \in BOOLEAN, f \in BOOLEAN}
        /\ github \in [prs : Streams(PRPool), refs : RefWorlds]
        /\ repo = NoClone
     \/ /\ args \in {Args("remote", d, TRUE, e) : d \in BOOLEAN, e \in FailingEnvs}
        /\ SmallWorld

InitLocal ==
  /\ RunStart("l_start")
  /\ \/ /\ args \in {Args("local", d, f, EnvInClone) : d \in BOOLEAN, f \in BOOLEAN}
        /\ github \in [prs : Streams(PRPool), refs : {NoRefs}]
        /\ repo \in Clones
     \/ /\ args \in {Args("local", d, TRUE, e) : d \in BOOLEAN, e \in FailingEnvs}
        /\ SmallWorld

AllPRPool ==
  {PullRequest(0, nFeature1, "abc123", Some(BaseRepo), TRUE),
   PullRequest(0, nFeature1, "abc123", Some(BaseRepo), FALSE),
   PullRequest(0, nFeature2, "abc123", Some(BaseRepo), TRUE)}

AllClones ==
  {Clone(<<LocalBranch(nFeature1, "abc123", FALSE), LocalBranch(nMain, "base-sha", TRUE)>>,
         nMain, st) : st \in {Some([ahead |-> 0, behind |-> 0]), Some([ahead |-> 1, behind |-> 0])}}

InitAll ==
  /\ RunStart("a_start")
  /\ \/ /\ args \in {Args("all", d, f, EnvInClone) : d \in BOOLEAN, f \in BOOLEAN}
        /\ github \in [prs : Streams(AllPRPool),
                       refs : {[n \in RefNames |-> r] : r \in {RefMissing, RefAt("abc123")}}]
        /\ repo \in AllClones
     \/ /\ args \in {Args("all", d, TRUE, e) : d \in BOOLEAN, e \in FailingEnvs}
        /\ SmallWorld

Init == InitRemote \/ InitLocal \/ InitAll

Next ==
  \/ RemoteHandlerStart
  \/ RemoteExaminePR
  \/ RemoteApiError
  \/ RemoteCollected
  \/ RemotePrompt
  \/ RemoteDeleteOne
  \/ RemoteFinish
  \/ LocalHandlerStart
  \/ LocalScan
  \/ LocalFetchPR
  \/ LocalApiError
  \/ LocalAnalyze
  \/ LocalPrompt
  \/ LocalDeleteOne
  \/ LocalFinish
  \/ AllHandlerStart
  \/ AllAfterRemote
  \/ AllSummary

Spec == Init /\ [][Next]_vars

\* The evaluator on bounded inputs and the commands, side by side: for
\* properties that speak of a verdict and of what a run does with it
InitBoth == InitSafety \/ Init

NextBoth == NextSafety \/ Next

SpecBoth == InitBoth /\ [][NextBoth]_vars

(***************************************************************************)
(* promptWithCancel: one call, as the callbacks it registers               *)
(***************************************************************************)
\* Keypress events a call may be handed
MaxKeys == 2

\* key.name of the keypress events
Keys == {"escape", "return"}

\* What inquirer.prompt resolves with
PromptAnswers == {[selectedBranches |-> <<>>], [selectedBranches |-> <<"feature-1">>]}

\* What inquirer.prompt rejects with; forceClosed stands for a message that
\* includes 'User force closed'
PromptErrors ==
  {[name |-> "ExitPromptError", forceClosed |-> TRUE],
   [name |-> "Error", forceClosed |-> TRUE],
   [name |-> "Error", forceClosed |-> FALSE]}

\* The call on entry: nothing registered yet, process.stdin as the caller left it
PromptCall(isTTY, isRaw) ==
  [started |-> FALSE, isTTY |-> isTTY, isRaw |-> isRaw, originalRawMode |-> isRaw,
   rawOnEntry |-> isRaw,
   listener |-> FALSE, promptResolved |-> FALSE, inquirer |-> "pending",
   outcome |-> None, settles |-> 0, stdout |-> <<>>, exited |-> FALSE,
   cleaned |-> FALSE, keys |-> 0, events |-> <<>>]

\* resolve(value) and reject(error) of the promise the call awaits: each call
\* is counted, the first one fixes the outcome
settle(p, kind, value) ==
  [p EXCEPT !.outcome = IF @ = None THEN Some([kind |-> kind, value |-> value]) ELSE @,
            !.settles = @ + 1]

logEvent(p, ev, arg) == [p EXCEPT !.events = Append(@, [ev |-> ev, arg |-> arg])]

\* The executor of the promise: raw mode on a TTY, the keypress listener,
\* then inquirer.prompt is started
promptExecutor ==
  /\ IsSome(prompt) /\ ~ Get(prompt).started
  /\ prompt' = Some([Get(prompt) EXCEPT !.started = TRUE,
                                        !.originalRawMode = Get(prompt).isRaw,
                                        !.isRaw = IF Get(prompt).isTTY THEN TRUE ELSE @,
                                        !.listener = TRUE])
  /\ UNCHANGED <<evalVars, runVars, expand, loaded, batch, opt, picker>>

\* Mutant of keypressHandler: Escape is handled whether or not the prompt is resolved
keypressHandler_Unguarded(key) ==
  /\ IsSome(prompt) /\ Get(prompt).started /\ ~ Get(prompt).exited
  /\ Get(prompt).keys < MaxKeys
  /\ LET p == logEvent([Get(prompt) EXCEPT !.keys = @ + 1], "keypress", << key >>)
     IN prompt' = Some(IF key = "escape"
                       THEN settle([p EXCEPT !.promptResolved = TRUE,
                                             !.stdout = Append(@, "\n")],
                                   "resolved", None)
                       ELSE p)
  /\ UNCHANGED <<evalVars, runVars, expand, loaded, batch, opt, picker>>

\* keypressHandler, handed a keypress by process.stdin or called by whoever
\* holds it: Escape before the prompt is resolved cancels
keypressHandler(key) ==
  /\ IsSome(prompt) /\ Get(prompt).started /\ ~ Get(prompt).exited
  /\ Get(prompt).keys < MaxKeys
  /\ LET p == logEvent([Get(prompt) EXCEPT !.keys = @ + 1], "keypress", << key >>)
     IN prompt' = Some(IF key = "escape" /\ ~ p.promptResolved
                       THEN settle([p EXCEPT !.promptResolved = TRUE,
                                             !.stdout = Append(@, "\n")],
                                   "resolved", None)
                       ELSE p)
  /\ UNCHANGED <<evalVars, runVars, expand, loaded, batch, opt, picker>>

\* The .then callback of inquirer.prompt
inquirerThen(answers) ==
  /\ IsSome(prompt) /\ Get(prompt).started /\ ~ Get(prompt).exited
  /\ Get(prompt).inquirer = "pending"
  /\ LET p == logEvent([Get(prompt) EXCEPT !.inquirer = "answered"], "then", << answers >>)
     IN prompt' = Some(IF ~ p.promptResolved
                       THEN settle([p EXCEPT !.promptResolved = TRUE],
                                   "resolved", Some(answers))
                       ELSE p)
  /\ UNCHANGED <<evalVars, runVars, expand, loaded, batch, opt, picker>>

\* Ctrl+C as inquirer reports it
isForceClose(error) == error.name = "ExitPromptError" \/ error.forceClosed

\* The .catch callback of inquirer.prompt: process.exit(0) ends the process
\* before reject is reached
inquirerCatch(error) ==
  /\ IsSome(prompt) /\ Get(prompt).started /\ ~ Get(prompt).exited
  /\ Get(prompt).inquirer = "pending"
  /\ LET p == logEvent([Get(prompt) EXCEPT !.inquirer = "failed"], "catch", << error >>)
     IN prompt' = Some(IF p.promptResolved THEN p
                       ELSE IF isForceClose(error)
                       THEN [p EXCEPT !.promptResolved = TRUE,
                                      !.stdout = Append(@, "\n"),
                                      !.exited = TRUE]
                       ELSE settle([p EXCEPT !.promptResolved = TRUE],
                                   "rejected", Some(error)))
  /\ UNCHANGED <<evalVars, runVars, expand, loaded, batch, opt, picker>>

\* Mutant of cleanupFunction: the listener goes, raw mode stays as it is
cleanupFunction_KeepsRawMode ==
  /\ IsSome(prompt) /\ ~ Get(prompt).exited /\ ~ Get(prompt).cleaned
  /\ IsSome(Get(prompt).outcome)
  /\ prompt' = Some(logEvent([Get(prompt) EXCEPT !.cleaned = TRUE, !.listener = FALSE],
                             "finally", <<>>))
  /\ UNCHANGED <<evalVars, runVars, expand, loaded, batch, opt, picker>>

\* The .finally callback, once the promise is settled: the listener is
\* removed and raw mode is put back where it differs
cleanupFunction ==
  /\ IsSome(prompt) /\ ~ Get(prompt).exited /\ ~ Get(prompt).cleaned
  /\ IsSome(Get(prompt).outcome)
  /\ prompt' = Some(logEvent([Get(prompt) EXCEPT
                                !.cleaned = TRUE,
                                !.listener = FALSE,
                                !.isRaw = IF Get(prompt).isTTY
                                             /\ Get(prompt).originalRawMode # Get(prompt).isRaw
                                          THEN Get(prompt).originalRawMode ELSE @],
                             "finally", <<>>))
  /\ UNCHANGED <<evalVars, runVars, expand, loaded, batch, opt, picker>>

InitPrompt ==
  /\ prompt \in {Some(PromptCall(t, r)) : t \in BOOLEAN, r \in BOOLEAN}
  /\ SafetyIdle /\ RunIdle
  /\ expand = None /\ loaded = None /\ batch = None /\ opt = None /\ picker = None

NextPrompt ==
  \/ promptExecutor
  \/ \E key \in Keys : keypressHandler(key)
  \/ \E answers \in PromptAnswers : inquirerThen(answers)
  \/ \E error \in PromptErrors : inquirerCatch(error)
  \/ cleanupFunction

SpecPrompt == InitPrompt /\ [][NextPrompt]_vars

(***************************************************************************)
(* SpecExpand: one call of expandDefaultPlaceholder on bounded lists       *)
(***************************************************************************)
\* Longest configured protectedBranches list
MaxList == 4

GHOULS_DEFAULT_PLACEHOLDER == <<"$","G","H","O","U","L","S","_","D","E","F","A","U","L","T">>

\* DEFAULT_PROTECTED_BRANCHES of the revision that knows the placeholder: the
\* seven names and the three glob patterns
DEFAULT_PROTECTED_BRANCHES_WITH_GLOBS ==
  DEFAULT_PROTECTED_BRANCHES
    \o << <<"r","e","l","e","a","s","e","/","*">>, <<"r","e","l","e","a","s","e","-","*">>,
          <<"h","o","t","f","i","x","/","*">> >>

SeqToSet(s) == {s[i] : i \in 1..Len(s)}

\* result.push(entry), for each of the entries in turn, unless the entry has
\* been seen; the entries pushed together (one custom entry, or the defaults)
\* are distinct, so what has been seen among them is what result holds
pushUnseen(result, entries) ==
  result \o SelectSeq(entries, LAMBDA e : e \notin SeqToSet(result))

\* Mutant of expandFirst: every placeholder pushes all the defaults
RECURSIVE expandFirst_EveryPlaceholder(_, _)
expandFirst_EveryPlaceholder(branches, n) ==
  IF n = 0 THEN <<>>
  ELSE LET r == expandFirst_EveryPlaceholder(branches, n - 1)
       IN IF branches[n] = GHOULS_DEFAULT_PLACEHOLDER
          THEN r \o DEFAULT_PROTECTED_BRANCHES_WITH_GLOBS
          ELSE pushUnseen(r, <<branches[n]>>)

\* The scan of the configured list, left to right: the result after the
\* first n entries
RECURSIVE expandFirst(_, _)
expandFirst(branches, n) ==
  IF n = 0 THEN <<>>
  ELSE LET r == expandFirst(branches, n - 1)
       IN IF branches[n] = GHOULS_DEFAULT_PLACEHOLDER
          THEN pushUnseen(r, DEFAULT_PROTECTED_BRANCHES_WITH_GLOBS)
          ELSE pushUnseen(r, <<branches[n]>>)

expandDefaultPlaceholder(branches) == expandFirst(branches, Len(branches))

RECURSIVE ListsUpTo(_, _)
ListsUpTo(S, n) ==
  IF n = 0 THEN {<<>>}
  ELSE LET shorter == ListsUpTo(S, n - 1)
       IN shorter \cup {Append(l, x) : l \in shorter, x \in S}

ConfiguredLists ==
  ListsUpTo({GHOULS_DEFAULT_PLACEHOLDER, nMain, nDevelop, nCustom}, MaxList)

InitExpand ==
  /\ expand \in {Some([branches |-> l, result |-> None]) : l \in ConfiguredLists}
  /\ SafetyIdle /\ RunIdle
  /\ prompt = None /\ loaded = None /\ batch = None /\ opt = None /\ picker = None

Expand ==
  /\ IsSome(expand) /\ Get(expand).result = None
  /\ expand' = Some([Get(expand) EXCEPT
                       !.result = Some(expandDefaultPlaceholder(Get(expand).branches))])
  /\ UNCHANGED <<evalVars, runVars, prompt, loaded, batch, opt, picker>>

NextExpand == Expand

SpecExpand == InitExpand /\ [][NextExpand]_vars

(***************************************************************************)
(* SpecConfig: one call of loadSafetyConfig over bounded files             *)
(***************************************************************************)
\* The paths of findConfigFiles, highest precedence first: the file named by
\* GHOULS_CONFIG, a file in the git root, the user-level file
ConfigPaths == <<"env", "repo", "user">>

\* What is at one path: nothing, a file loadConfigFile throws on, a
\* configuration without a safety section, or one with it
ConfigFiles ==
  {[kind |-> k, safety |-> EmptySafetyConfig] : k \in {"missing", "invalid", "no-safety"}}
    \cup {[kind |-> "safety",
           safety |-> [EmptySafetyConfig EXCEPT !.protectedBranches = p,
                                                !.allowUnpushedCommits = a]] :
            p \in {None, Some(<< nCustom >>), Some(<< nStaging >>)},
            a \in {None, Some(TRUE), Some(FALSE)}}

\* loadSafetyConfig with files[i] at the i-th path of findConfigFiles
loadSafetyConfig(files) ==
  LET found == SelectSeq(files, LAMBDA f : f.kind # "missing")
      withSafety == SelectSeq(found, LAMBDA f : f.kind = "safety")
      loadedConfigs == [i \in 1..Len(withSafety) |-> Some(withSafety[i].safety)]
      errors == SelectSeq(found, LAMBDA f : f.kind = "invalid")
  IN IF Len(errors) > 0 /\ Len(loadedConfigs) = 0
     THEN [kind |-> "throws", config |-> EmptySafetyConfig]
     ELSE [kind |-> "config", config |-> mergeSafetyConfig(loadedConfigs)]

InitConfig ==
  /\ loaded \in {Some([files |-> f, result |-> None]) :
                   f \in [1..Len(ConfigPaths) -> ConfigFiles]}
  /\ SafetyIdle /\ RunIdle
  /\ prompt = None /\ expand = None /\ batch = None /\ opt = None /\ picker = None

LoadConfig ==
  /\ IsSome(loaded) /\ Get(loaded).result = None
  /\ loaded' = Some([Get(loaded) EXCEPT !.result = Some(loadSafetyConfig(Get(loaded).files))])
  /\ UNCHANGED <<evalVars, runVars, prompt, expand, batch, opt, picker>>

NextConfig == LoadConfig

SpecConfig == InitConfig /\ [][NextConfig]_vars

(***************************************************************************)
(* SpecBatch: one call of processBatches, one loop iteration per step      *)
(***************************************************************************)
\* Most items handed to processBatches, largest batchSize
MaxItems == 4
MaxBatchSize == 3

\* How the processor treats an item: it returns a result for it, it throws
\* whenever the item is in the call, or it throws only when the item comes
\* with others in one call
ItemFates == {"ok", "throws", "throws-in-batch"}

\* processor(ids) throws
processorThrows(items, ids) ==
  \E k \in 1..Len(ids) :
    \/ items[ids[k]] = "throws"
    \/ items[ids[k]] = "throws-in-batch" /\ Len(ids) > 1

BatchCall(items, batchSize) ==
  [items |-> items, batchSize |-> batchSize, i |-> 0,
   results |-> <<>>, errors |-> <<>>, calls |-> <<>>]

\* items.slice(i, i + batchSize), as the positions 1..Len(items) of the items
sliceOf(b) ==
  [k \in 1..(IF b.i + b.batchSize <= Len(b.items) THEN b.batchSize ELSE Len(b.items) - b.i)
     |-> b.i + k]

\* The catch block: every item of the batch goes to the processor alone
RECURSIVE retryIndividually(_, _, _)
retryIndividually(b, ids, k) ==
  IF k = 0 THEN b
  ELSE LET r == retryIndividually(b, ids, k - 1)
           called == [r EXCEPT !.calls = Append(@, <<ids[k]>>)]
       IN IF processorThrows(b.items, <<ids[k]>>)
          THEN [called EXCEPT !.errors = Append(@, ids[k])]
          ELSE [called EXCEPT !.results = Append(@, ids[k])]

\* Mutant of ProcessBatch: a batch that throws is recorded as failed, item by item
ProcessBatch_NoRetry ==
  /\ IsSome(batch) /\ Get(batch).i < Len(Get(batch).items)
  /\ LET b == Get(batch)
         ids == sliceOf(b)
         called == [b EXCEPT !.calls = Append(@, ids), !.i = @ + b.batchSize]
     IN batch' = Some(IF processorThrows(b.items, ids)
                      THEN [called EXCEPT !.errors = @ \o ids]
                      ELSE [called EXCEPT !.results = @ \o ids])
  /\ UNCHANGED <<evalVars, runVars, prompt, expand, loaded, opt, picker>>

\* One iteration of the for loop
ProcessBatch ==
  /\ IsSome(batch) /\ Get(batch).i < Len(Get(batch).items)
  /\ LET b == Get(batch)
         ids == sliceOf(b)
         called == [b EXCEPT !.calls = Append(@, ids), !.i = @ + b.batchSize]
     IN batch' = Some(IF processorThrows(b.items, ids)
                      THEN retryIndividually(called, ids, Len(ids))
                      ELSE [called EXCEPT !.results = @ \o ids])
  /\ UNCHANGED <<evalVars, runVars, prompt, expand, loaded, opt, picker>>

InitBatch ==
  /\ batch \in {Some(BatchCall(items, size)) :
                  items \in UNION {[1..n -> ItemFates] : n \in 0..MaxItems},
                  size \in 1..MaxBatchSize}
  /\ SafetyIdle /\ RunIdle
  /\ prompt = None /\ expand = None /\ loaded = None /\ opt = None /\ picker = None

NextBatch == ProcessBatch

SpecBatch == InitBatch /\ [][NextBatch]_vars

(***************************************************************************)
(* SpecOptimized: PruneLocalBranches.perform of the revision that caps the *)
(* pull requests it reads and deletes in batches.  The verdicts of the     *)
(* evaluator come from the environment here (SpecSafety checks them): what *)
(* counts is how many pull requests are read and how the list is walked.   *)
(***************************************************************************)
\* optimizePRFetchStrategy(localBranchCount, DEFAULT_PERFORMANCE_CONFIG)
optimizePRFetchStrategy(localBranchCount) ==
  IF localBranchCount <= 50 THEN [shouldOptimize |-> FALSE, recommendedLimit |-> None]
  ELSE IF localBranchCount <= 200 THEN [shouldOptimize |-> TRUE, recommendedLimit |-> Some(500)]
  ELSE [shouldOptimize |-> TRUE, recommendedLimit |-> Some(1000)]

\* Math.ceil(a / b) for positive b
CeilDiv(a, b) == (a + b - 1) \div b

\* createProcessingPlan(branchCount, DEFAULT_PERFORMANCE_CONFIG), the fields
\* perform reads
createProcessingPlan(branchCount) ==
  [batchSize |-> IF branchCount > 500
                 THEN (IF CeilDiv(branchCount, 10) < 100 THEN CeilDiv(branchCount, 10) ELSE 100)
                 ELSE IF branchCount > 200 THEN 75 ELSE 50,
   limitPRFetch |-> optimizePRFetchStrategy(branchCount).shouldOptimize,
   prFetchLimit |-> optimizePRFetchStrategy(branchCount).recommendedLimit]

\* const maxPRs = processingPlan.prFetchLimit || 1000
maxPRsOf(plan) == IF IsSome(plan.prFetchLimit) THEN Get(plan.prFetchLimit) ELSE 1000

\* Numbers of local branches, lengths of the closed-PR stream and lengths of
\* the list to delete that put a run on each side of every threshold
BranchCounts == {2, 51, 201, 501}
StreamLengths == {0, 500, 501, 1000, 1001}
DeleteCounts == {0, 2, 51, 52}

OptRun(branchCount, streamLength, dryRun) ==
  [branchCount |-> branchCount, streamLength |-> streamLength, dryRun |-> dryRun,
   processingPlan |-> createProcessingPlan(branchCount),
   pc |-> "fetch", prCount |-> 0, output |-> <<>>,
   branchesToDelete |-> 0, failing |-> {}, path |-> "none", i |-> 0,
   calls |-> <<>>, deletedCount |-> 0, errorCount |-> 0]

\* Mutant of OptFetchPR: the loop stops at the cap without a word
OptFetchPR_SilentCap ==
  /\ IsSome(opt) /\ Get(opt).pc = "fetch"
  /\ LET o == Get(opt)
     IN opt' = Some(IF o.prCount >= o.streamLength THEN [o EXCEPT !.pc = "analyze"]
                    ELSE IF o.processingPlan.limitPRFetch /\ o.prCount >= maxPRsOf(o.processingPlan)
                    THEN [o EXCEPT !.pc = "analyze"]
                    ELSE [o EXCEPT !.prCount = @ + 1])
  /\ UNCHANGED <<evalVars, runVars, prompt, expand, loaded, batch, picker>>

\* getMergedPRsMapOptimized: the stream ends, or hands over its next pull
\* request, which is turned away at the cap
OptFetchPR ==
  /\ IsSome(opt) /\ Get(opt).pc = "fetch"
  /\ LET o == Get(opt)
     IN opt' = Some(IF o.prCount >= o.streamLength THEN [o EXCEPT !.pc = "analyze"]
                    ELSE IF o.processingPlan.limitPRFetch /\ o.prCount >= maxPRsOf(o.processingPlan)
                    THEN [o EXCEPT !.pc = "analyze", !.output = Append(@, "limited")]
                    ELSE [o EXCEPT !.prCount = @ + 1])
  /\ UNCHANGED <<evalVars, runVars, prompt, expand, loaded, batch, picker>>

\* A request for a page of the stream fails and perform rejects
OptApiError ==
  /\ IsSome(opt) /\ Get(opt).pc = "fetch"
  /\ Get(opt).prCount < Get(opt).streamLength
  /\ Get(opt).prCount % 100 = 0
  /\ opt' = Some([Get(opt) EXCEPT !.pc = "failed"])
  /\ UNCHANGED <<evalVars, runVars, prompt, expand, loaded, batch, picker>>

\* filterSafeBranches and the choice of the path: n branches are to be
\* deleted, and deleteLocalBranch is going to throw for those of failing
OptAnalyze ==
  /\ IsSome(opt) /\ Get(opt).pc = "analyze"
  /\ \E n \in DeleteCounts, failing \in SUBSET {1, 51} :
       /\ n <= Get(opt).branchCount
       /\ failing \subseteq 1..n
       /\ LET o == Get(opt)
          IN opt' = Some(IF n = 0 THEN [o EXCEPT !.pc = "done"]
                         ELSE [o EXCEPT !.pc = "delete",
                                        !.branchesToDelete = n,
                                        !.failing = failing,
                                        !.path = IF n > o.processingPlan.batchSize
                                                 THEN "batched" ELSE "sequential"])
  /\ UNCHANGED <<evalVars, runVars, prompt, expand, loaded, batch, picker>>

\* The body both loops share, for the branches from..to of the list:
\* `[DRY RUN] Would delete`, or deleteLocalBranch and `Deleted`, or `Error
\* deleting`; countErrors tells whether a caught error is counted
deleteRange(o, from, to, countErrors) ==
  LET range == [k \in 1..(to - from + 1) |-> from + k - 1]
      thrown == {b \in from..to : ~ o.dryRun /\ b \in o.failing}
  IN [o EXCEPT
        !.calls = IF o.dryRun THEN @ ELSE @ \o range,
        !.output = @ \o [k \in 1..Len(range) |->
                           IF o.dryRun THEN "would-delete"
                           ELSE IF range[k] \in thrown THEN "error" ELSE "deleted"],
        !.deletedCount = @ + Len(range) - Cardinality(thrown),
        !.errorCount = IF countErrors THEN @ + Cardinality(thrown) ELSE @]

\* processBranchesSequentially: one loop without an await in it, then the summary
OptDeleteSequentially ==
  /\ IsSome(opt) /\ Get(opt).pc = "delete" /\ Get(opt).path = "sequential"
  /\ opt' = Some([deleteRange(Get(opt), 1, Get(opt).branchesToDelete, TRUE)
                    EXCEPT !.pc = "done", !.output = Append(@, "summary")])
  /\ UNCHANGED <<evalVars, runVars, prompt, expand, loaded, batch, picker>>

\* Mutant of OptDeleteBatch: only what processBatches reports as errors is counted
OptDeleteBatch_ErrorsFromBatchOnly ==
  /\ IsSome(opt) /\ Get(opt).pc = "delete" /\ Get(opt).path = "batched"
  /\ LET o == Get(opt)
         last == IF o.i + o.processingPlan.batchSize <= o.branchesToDelete
                 THEN o.i + o.processingPlan.batchSize ELSE o.branchesToDelete
         r == [deleteRange(o, o.i + 1, last, FALSE) EXCEPT !.i = @ + o.processingPlan.batchSize]
     IN opt' = Some(IF r.i >= r.branchesToDelete
                    THEN [r EXCEPT !.pc = "done", !.output = Append(@, "summary")]
                    ELSE r)
  /\ UNCHANGED <<evalVars, runVars, prompt, expand, loaded, batch, picker>>

\* processBranchesInBatches: processBatches awaits the processor on one
\* slice of the list; the processor catches every error of deleteLocalBranch
\* itself, so no batch call throws.  After the last slice the results are
\* counted and the summary is printed
OptDeleteBatch ==
  /\ IsSome(opt) /\ Get(opt).pc = "delete" /\ Get(opt).path = "batched"
  /\ LET o == Get(opt)
         last == IF o.i + o.processingPlan.batchSize <= o.branchesToDelete
                 THEN o.i + o.processingPlan.batchSize ELSE o.branchesToDelete
         r == [deleteRange(o, o.i + 1, last, TRUE) EXCEPT !.i = @ + o.processingPlan.batchSize]
     IN opt' = Some(IF r.i >= r.branchesToDelete
                    THEN [r EXCEPT !.pc = "done", !.output = Append(@, "summary")]
                    ELSE r)
  /\ UNCHANGED <<evalVars, runVars, prompt, expand, loaded, batch, picker>>

InitOptimized ==
  /\ opt \in {Some(OptRun(n, s, d)) : n \in BranchCounts, s \in StreamLengths, d \in BOOLEAN}
  /\ SafetyIdle /\ RunIdle
  /\ prompt = None /\ expand = None /\ loaded = None /\ batch = None /\ picker = None

NextOptimized ==
  \/ OptFetchPR
  \/ OptApiError
  \/ OptAnalyze
  \/ OptDeleteSequentially
  \/ OptDeleteBatch

SpecOptimized == InitOptimized /\ [][NextOptimized]_vars

(***************************************************************************)
(* SpecSelect: createPaginatedCheckboxPrompt in its enhanced mode, one     *)
(* menu action per step                                                    *)
(***************************************************************************)
\* The choices handed to the prompt, all pre-checked as perform builds them;
\* more than options.pageSize of them, so that the enhanced mode is taken
PickerChoices ==
  << [name |-> <<"f","a"," ","P","R">>, value |-> <<"f","a">>, checked |-> TRUE],
     [name |-> <<"f","b"," ","P","R">>, value |-> <<"f","b">>, checked |-> TRUE],
     [name |-> <<"x","a"," ","P","R">>, value |-> <<"x","a">>, checked |-> TRUE],
     [name |-> <<"o","l","d">>, value |-> <<"o","l","d">>, checked |-> TRUE] >>

PickerOptions == [pageSize |-> 3, bulkActionsEnabled |-> TRUE]

\* What the user may type as a search term or as a pattern
SearchTerms == {<<>>, <<"f">>, <<"A">>, <<"p","r">>, <<"z">>}

\* String.prototype.includes
stringIncludes(s, text) == \E k \in 1..(Len(s) + 1) : OccursAt(text, s, k)

ValuesOf(choices) == {choices[i].value : i \in 1..Len(choices)}

\* handleSearchAction: the choices whose value or name holds the term,
\* letter case aside; every choice for an empty term
filterChoices(allChoices, searchTerm) ==
  IF searchTerm = <<>> THEN allChoices
  ELSE SelectSeq(allChoices,
                 LAMBDA c : \/ stringIncludes(toLowerCase(c.value), toLowerCase(searchTerm))
                            \/ stringIncludes(toLowerCase(c.name), toLowerCase(searchTerm)))

PickerStart ==
  [selectedItems |-> {PickerChoices[i].value :
                        i \in {j \in 1..Len(PickerChoices) : PickerChoices[j].checked}},
   filteredChoices |-> PickerChoices, searchTerm |-> <<>>,
   returned |-> None, lastAction |-> "none",
   shownBefore |-> {}, selectedBefore |-> {}]

\* What every menu action does first: the selection and the filter it found
noteAction(p, action) ==
  [p EXCEPT !.lastAction = action,
            !.shownBefore = ValuesOf(p.filteredChoices),
            !.selectedBefore = p.selectedItems]

PickerOpen == IsSome(picker) /\ Get(picker).returned = None

\* case 'search'
PickerSearch ==
  /\ PickerOpen
  /\ \E term \in SearchTerms :
       picker' = Some([noteAction(Get(picker), "search") EXCEPT
                         !.searchTerm = term,
                         !.filteredChoices = filterChoices(PickerChoices, term)])
  /\ UNCHANGED <<evalVars, runVars, prompt, expand, loaded, batch, opt>>

\* case 'bulk': select-all adds the filtered choices, select-none clears
\* the selection, select-pattern adds the filtered choices whose value the
\* pattern (a literal text here) matches
PickerBulk ==
  /\ PickerOpen
  /\ \E bulkAction \in {"select-all", "select-none", "select-pattern"}, pattern \in SearchTerms :
       LET p == noteAction(Get(picker), bulkAction)
           shown == ValuesOf(p.filteredChoices)
       IN picker' = Some([p EXCEPT !.selectedItems =
                            IF bulkAction = "select-all" THEN @ \cup shown
                            ELSE IF bulkAction = "select-none" THEN {}
                            ELSE @ \cup {v \in shown : stringIncludes(v, pattern)}])
  /\ UNCHANGED <<evalVars, runVars, prompt, expand, loaded, batch, opt>>

\* case 'individual': the checkbox prompt over the filtered choices returns
\* what the user left checked, and handleIndividualSelection returns
\* new Set(newSelections)
PickerIndividual ==
  /\ PickerOpen
  /\ \E newSelections \in SUBSET ValuesOf(Get(picker).filteredChoices) :
       picker' = Some([noteAction(Get(picker), "individual") EXCEPT
                         !.selectedItems = newSelections])
  /\ UNCHANGED <<evalVars, runVars, prompt, expand, loaded, batch, opt>>

\* case 'review': reviewSelectedItems lists the selection and changes nothing
PickerReview ==
  /\ PickerOpen
  /\ picker' = Some(noteAction(Get(picker), "review"))
  /\ UNCHANGED <<evalVars, runVars, prompt, expand, loaded, batch, opt>>

\* case 'continue'
PickerContinue ==
  /\ PickerOpen
  /\ picker' = Some([noteAction(Get(picker), "continue") EXCEPT
                       !.returned = Some(Get(picker).selectedItems)])
  /\ UNCHANGED <<evalVars, runVars, prompt, expand, loaded, batch, opt>>

InitSelect ==
  /\ Len(PickerChoices) > PickerOptions.pageSize
  /\ picker = Some(PickerStart)
  /\ SafetyIdle /\ RunIdle
  /\ prompt = None /\ expand = None /\ loaded = None /\ batch = None /\ opt = None

NextSelect ==
  \/ PickerSearch
  \/ PickerBulk
  \/ PickerIndividual
  \/ PickerReview
  \/ PickerContinue

SpecSelect == InitSelect /\ [][NextSelect]_vars

(***************************************************************************)
(* SpecRace: the remote command while another actor pushes to the          *)
(* repository                                                              *)
(***************************************************************************)
\* Somebody else pushes a commit to a branch while the command runs: the ref
\* moves from the commit the pull requests record to a newer one
OtherActorMovesRef ==
  /\ pc \in {"r_collect", "r_prompt", "r_delete"}
  /\ \E n \in RefNames :
       /\ github.refs[n] = RefAt("abc123")
       /\ github' = [github EXCEPT !.refs[n] = RefAt("def456")]
  /\ UNCHANGED <<evalVars, auxVars, args, repo, pc, remote, local, all, apiCalls, gitCalls>>

NextRace ==
  \/ RemoteHandlerStart
  \/ RemoteExaminePR
  \/ RemoteApiError
  \/ RemoteCollected
  \/ RemotePrompt
  \/ RemoteDeleteOne
  \/ RemoteFinish
  \/ OtherActorMovesRef

SpecRace == InitRemote /\ [][NextRace]_vars

(***************************************************************************)
(* Properties of the safety evaluator (checked under SpecSafety)           *)
(***************************************************************************)
\* The effective protected list of the call in evalIn
EvalProtectedList == getEffectiveSafetyConfig(Get(evalIn).config).protectedBranches

\* Some entry of list equals name, ignoring letter case
MatchesIgnoringCase(list, name) ==
  \E i \in 1..Len(list) : toLowerCase(list[i]) = toLowerCase(name)

EvalIsCurrent ==
  Get(evalIn).branch.isCurrent \/ Get(evalIn).branch.name = Get(evalIn).currentBranch

\* C1: a branch whose isCurrent flag is set, or whose name is the current
\* branch name, is unsafe with reason "current branch" whatever the pull
\* request, the configuration and the ahead count are.
C1_CurrentBranchAlwaysUnsafe ==
  (IsSome(evalOut) /\ EvalIsCurrent) => Get(evalOut) = Unsafe("current branch")

\* C1 witness: the flag is clear, the name equals the current branch name, the
\* pull request is merged with the branch's SHA, and the verdict is unsafe.
C1_Witness ==
  /\ IsSome(evalOut)
  /\ ~ Get(evalIn).branch.isCurrent
  /\ Get(evalIn).branch.name = Get(evalIn).currentBranch
  /\ IsSome(Get(evalIn).matchingPR)
  /\ Get(Get(evalIn).matchingPR).head.sha = Get(evalIn).branch.sha
  /\ IsSome(Get(Get(evalIn).matchingPR).merge_commit_sha)
  /\ Get(evalOut) = Unsafe("current branch")

\* The guards of the evaluation in evalIn, stated on the inputs
EvalNameGuard ==
  LET eff == getEffectiveSafetyConfig(Get(evalIn).config)
      name == Get(evalIn).branch.name
  IN \/ MatchesIgnoringCase(eff.protectedBranches, name)
     \/ \E i \in 1..Len(eff.additionalProtectedPatterns) :
          /\ IsValidRegex(eff.additionalProtectedPatterns[i])
          /\ RegexTestIgnoreCase(eff.additionalProtectedPatterns[i], name)
     \/ \E i \in 1..Len(eff.customSafetyRules) :
          /\ IsValidRegex(eff.customSafetyRules[i].pattern)
          /\ RegexTestIgnoreCase(eff.customSafetyRules[i].pattern, name)

EvalShaGuard ==
  /\ IsSome(Get(evalIn).matchingPR)
  /\ Get(Get(evalIn).matchingPR).head.sha # Get(evalIn).branch.sha

EvalMergedGuard ==
  /\ IsSome(Get(evalIn).matchingPR)
  /\ ~ IsSome(Get(Get(evalIn).matchingPR).merge_commit_sha)
  /\ getEffectiveSafetyConfig(Get(evalIn).config).requireMergedPR

EvalUnpushedGuard ==
  /\ IsSome(Get(evalIn).branchStatus)
  /\ Get(Get(evalIn).branchStatus).ahead > 0
  /\ ~ getEffectiveSafetyConfig(Get(evalIn).config).allowUnpushedCommits

PRAndStatusReasons ==
  {"SHA mismatch with PR head", "PR was not merged"}
    \cup {UnpushedReason(a) : a \in 0..MaxAhead}

\* C2: the verdict carries the reason of the earliest guard that matches, in
\* the order current branch, protected name, SHA mismatch with PR head, PR was
\* not merged, unpushed commits; the reason of a later guard is never returned
\* while an earlier guard matches.  (The name guard covers the protected list,
\* the configured patterns and the custom rules, which the code tests in one
\* run between the current-branch test and the pull-request tests.)
C2_EarliestGuardWins ==
  IsSome(evalOut) =>
    LET v == Get(evalOut) IN
    /\ EvalIsCurrent => v = Unsafe("current branch")
    /\ (~ EvalIsCurrent /\ EvalNameGuard) =>
         /\ ~ v.safe
         /\ v.reason \notin PRAndStatusReasons \cup {"current branch"}
         /\ MatchesIgnoringCase(EvalProtectedList, Get(evalIn).branch.name)
              => v.reason = "protected branch"
    /\ (~ EvalIsCurrent /\ ~ EvalNameGuard /\ EvalShaGuard) =>
         v = Unsafe("SHA mismatch with PR head")
    /\ (~ EvalIsCurrent /\ ~ EvalNameGuard /\ ~ EvalShaGuard /\ EvalMergedGuard) =>
         v = Unsafe("PR was not merged")
    /\ (~ EvalIsCurrent /\ ~ EvalNameGuard /\ ~ EvalShaGuard /\ ~ EvalMergedGuard
          /\ EvalUnpushedGuard) =>
         v = Unsafe(UnpushedReason(Get(Get(evalIn).branchStatus).ahead))

\* C2 witness: SHA mismatch, unmerged pull request and unpushed commits all
\* match a branch that is neither current nor protected, and the verdict names
\* the SHA mismatch.
C2_Witness ==
  /\ IsSome(evalOut)
  /\ ~ EvalIsCurrent /\ ~ EvalNameGuard
  /\ EvalShaGuard /\ EvalMergedGuard /\ EvalUnpushedGuard
  /\ Get(evalOut) = Unsafe("SHA mismatch with PR head")

\* The name matches release/*, release-* or hotfix/*
IsReleaseOrHotfixName(name) ==
  \/ OccursAt(<<"r","e","l","e","a","s","e","/">>, toLowerCase(name), 1)
  \/ OccursAt(<<"r","e","l","e","a","s","e","-">>, toLowerCase(name), 1)
  \/ OccursAt(<<"h","o","t","f","i","x","/">>, toLowerCase(name), 1)

\* C7: every branch named release/*, release-* or hotfix/* is unsafe, also
\* under a custom protected list that holds none of these patterns and with a
\* merged pull request of identical SHA and no unpushed commits.
C7_ReleaseHotfixAlwaysUnsafe ==
  (IsSome(evalOut) /\ IsReleaseOrHotfixName(Get(evalIn).branch.name))
    => ~ Get(evalOut).safe

\* The protected list as C8 states it: the configured list, the defaults
\* standing in when that list is empty
C8_ListDefaultsWhenEmpty ==
  LET c == Get(evalIn).config
      configured == IF IsSome(c) THEN Get(c).protectedBranches ELSE None
  IN IF IsSome(configured) /\ Get(configured) # <<>>
     THEN Get(configured) ELSE DEFAULT_PROTECTED_BRANCHES

\* The protected list as the code resolves it: the configured list when one
\* is configured (an empty one included), the defaults otherwise
C8_ListDefaultsWhenAbsent ==
  LET c == Get(evalIn).config
      configured == IF IsSome(c) THEN Get(c).protectedBranches ELSE None
  IN IF IsSome(configured) THEN Get(configured) ELSE DEFAULT_PROTECTED_BRANCHES

\* C8 as stated: a non-current branch that equals an entry of the protected
\* list ignoring case is unsafe with reason "protected branch", the defaults
\* applying when the configured list is empty.
C8_ProtectedEntriesDefaultsWhenEmpty ==
  (/\ IsSome(evalOut)
   /\ ~ EvalIsCurrent
   /\ MatchesIgnoringCase(C8_ListDefaultsWhenEmpty, Get(evalIn).branch.name))
    => Get(evalOut) = Unsafe("protected branch")

\* C8 amended: the same, the defaults applying only when no protectedBranches
\* is configured; an explicitly configured empty list protects no name.
C8_ProtectedEntriesDefaultsWhenAbsent ==
  (/\ IsSome(evalOut)
   /\ ~ EvalIsCurrent
   /\ MatchesIgnoringCase(C8_ListDefaultsWhenAbsent, Get(evalIn).branch.name))
    => Get(evalOut) = Unsafe("protected branch")

\* C8 witness: a configuration without protectedBranches, a non-current branch
\* "Main", judged a protected branch through the default entry "main".
C8_Witness ==
  /\ IsSome(evalOut)
  /\ IsSome(Get(evalIn).config)
  /\ ~ IsSome(Get(Get(evalIn).config).protectedBranches)
  /\ ~ EvalIsCurrent
  /\ Get(evalIn).branch.name = nMAIN
  /\ Get(evalOut) = Unsafe("protected branch")

(***************************************************************************)
(* Properties of the commands (checked under Spec)                         *)
(***************************************************************************)
DeleteReferenceCalls == {i \in 1..Len(apiCalls) : apiCalls[i].op = "deleteReference"}
GetReferenceCalls == {i \in 1..Len(apiCalls) : apiCalls[i].op = "getReference"}

\* The verdicts the safety evaluator gave for the branch called name in this run
VerdictsOf(name) ==
  {local.branchAnalysis[k].safetyCheck :
     k \in {j \in 1..Len(local.branchAnalysis) : local.branchAnalysis[j].branch.name = name}}

\* C3: in a local run, whatever the mode, every branch handed to
\* deleteLocalBranch has a verdict in this run's analysis, that verdict is
\* safe, and the branch is neither flagged current nor the checked-out branch.
C3_DeletesOnlySafeVerdicts ==
  \A i \in 1..Len(gitCalls) :
    /\ VerdictsOf(gitCalls[i].branch) # {}
    /\ \A v \in VerdictsOf(gitCalls[i].branch) : v.safe
    /\ gitCalls[i].branch # repo.currentBranch

\* An interactive run has deleted a branch while another branch of the same
\* analysis had an unsafe verdict
C3_Witness ==
  /\ args.command = "local" /\ ~ args.dryRun /\ ~ args.force
  /\ pc = "l_done"
  /\ \E i \in 1..Len(gitCalls) : gitCalls[i].ok
  /\ \E k \in 1..Len(local.branchAnalysis) : ~ local.branchAnalysis[k].safetyCheck.safe

\* C4: with dryRun set, no state of a remote, local or combined run has a
\* deleteReference or deleteLocalBranch call behind it, and both error counts
\* are zero.
C4_DryRunMutatesNothing ==
  args.dryRun =>
    /\ DeleteReferenceCalls = {}
    /\ gitCalls = <<>>
    /\ remote.errorCount = 0
    /\ local.errorCount = 0

\* A combined dry run has ended after simulating a remote and a local deletion
C4_Witness ==
  /\ args.command = "all" /\ args.dryRun
  /\ pc = "a_exit"
  /\ remote.deletedCount > 0
  /\ local.deletedCount > 0

\* The lookup made for pull request number n answered with the ref at sha
LookedUpAt(n, sha) ==
  \E i \in GetReferenceCalls :
    /\ apiCalls[i].pr = n
    /\ apiCalls[i].answer.kind = "ref"
    /\ apiCalls[i].answer.sha = sha

\* C5: in remote mode every candidate, and every deleteReference call, belongs
\* to a pull request whose lookup returned the ref at the PR's recorded head
\* SHA; a pull request whose lookup returned another SHA gets no
\* deleteReference call.
C5_CandidateOnlyIfShaMatches ==
  /\ \A k \in 1..Len(remote.branchesToDelete) :
       LookedUpAt(remote.branchesToDelete[k].pr.number, remote.branchesToDelete[k].pr.head.sha)
  /\ \A j \in DeleteReferenceCalls :
       LookedUpAt(apiCalls[j].pr, github.prs[apiCalls[j].pr].head.sha)
  /\ \A i \in GetReferenceCalls :
       (/\ apiCalls[i].answer.kind = "ref"
        /\ apiCalls[i].answer.sha # github.prs[apiCalls[i].pr].head.sha)
       => \A j \in DeleteReferenceCalls : apiCalls[j].pr # apiCalls[i].pr

\* A run looked up a ref that had moved away from its PR's head SHA, and
\* deleted the ref of another pull request
C5_Witness ==
  /\ pc = "r_done"
  /\ \E i \in GetReferenceCalls :
       /\ apiCalls[i].answer.kind = "ref"
       /\ apiCalls[i].answer.sha # github.prs[apiCalls[i].pr].head.sha
  /\ \E j \in DeleteReferenceCalls : apiCalls[j].ok

\* The head repository of pr is missing, or its owner or its name differs
\* from the base repository's
HeadRepoDiffers(pr) ==
  \/ pr.head.repo = None
  \/ Get(pr.head.repo).owner.login # Get(pr.base.repo).owner.login
  \/ Get(pr.head.repo).name # Get(pr.base.repo).name

\* C6: in remote mode a pull request without a merge commit SHA, or whose
\* head repository differs from the base repository or is missing, is never a
\* candidate, is never selected, and no deleteReference call is made for it.
C6_UnmergedOrForeignNeverCandidate ==
  \A n \in 1..Len(github.prs) :
    (~ IsSome(github.prs[n].merge_commit_sha) \/ HeadRepoDiffers(github.prs[n])) =>
      /\ \A k \in 1..Len(remote.branchesToDelete) : remote.branchesToDelete[k].pr.number # n
      /\ \A k \in 1..Len(remote.selectedBranches) : remote.selectedBranches[k].pr.number # n
      /\ \A j \in DeleteReferenceCalls : apiCalls[j].pr # n

\* A run met a pull request from another or a missing head repository whose
\* head ref name is live in the base repository, and deleted that ref for
\* another pull request
C6_Witness ==
  /\ pc = "r_done"
  /\ \E n \in 1..Len(github.prs) :
       /\ HeadRepoDiffers(github.prs[n])
       /\ \E j \in DeleteReferenceCalls :
            apiCalls[j].ok /\ apiCalls[j].ref = github.prs[n].head.ref

\* The first merged pull request among the first upto of the stream whose head ref is ref
FirstMergedWithRef(ref, upto) ==
  LET S == {n \in 1..upto : /\ IsSome(github.prs[n].merge_commit_sha)
                            /\ github.prs[n].head.ref = ref}
  IN CHOOSE n \in S : \A m \in S : n <= m

\* C9: in local mode the head-ref mapping holds, for every head ref, the
\* first merged pull request of the consumed stream with that head ref.
C9_FirstMergedPRWins ==
  \A ref \in DOMAIN local.mergedPRs :
    local.mergedPRs[ref].number = FirstMergedWithRef(ref, local.idx - 1)

\* Some merged pull request of the stream has head ref name
HasMergedPR(name) ==
  \E n \in 1..Len(github.prs) :
    IsSome(github.prs[n].merge_commit_sha) /\ github.prs[n].head.ref = name

\* C10: under the default configuration, every branch judged safe and every
\* branch handed to deleteLocalBranch has a merged pull request.
C10_OnlyMergedPRBranchesDeleted ==
  /\ \A k \in 1..Len(local.branchAnalysis) :
       local.branchAnalysis[k].safetyCheck.safe
         => HasMergedPR(local.branchAnalysis[k].branch.name)
  /\ \A i \in 1..Len(gitCalls) : HasMergedPR(gitCalls[i].branch)

\* The positions at which a handler has rejected
FailedPcs == {"r_failed", "l_failed", "a_failed"}

\* C11: when the user has cancelled at the confirmation prompt of a phase, the
\* run is not at a rejected handler, and that phase has made no deletion call
\* (none before the cancellation, none after it).
C11_CancelEndsCleanly ==
  /\ remote.cancelled => (pc \notin FailedPcs /\ DeleteReferenceCalls = {})
  /\ local.cancelled => (pc \notin FailedPcs /\ gitCalls = <<>>)

\* The deleteReference calls of the run, in order
DeleteReferenceSeq == SelectSeq(apiCalls, LAMBDA c : c.op = "deleteReference")

\* The number of calls of the sequence calls that ended as ok
CountOk(calls, ok) == Cardinality({i \in 1..Len(calls) : calls[i].ok = ok})

\* C12: in a live run the deletion calls made so far are exactly the first
\* pos - 1 entries of the selection, one call per entry and in its order,
\* whatever their outcomes; deletedCount and errorCount count the calls that
\* succeeded and failed; the loop never rejects, and once it is left every
\* entry was attempted, so deletedCount + errorCount is the size of the selection.
C12_FailureDoesNotStopTheLoop ==
  ~ args.dryRun =>
    /\ Len(gitCalls) = local.pos - 1
    /\ \A i \in 1..Len(gitCalls) : gitCalls[i].branch = local.branchesToDelete[i].branch.name
    /\ local.deletedCount = CountOk(gitCalls, TRUE)
    /\ local.errorCount = CountOk(gitCalls, FALSE)
    /\ (local.branchesToDelete # <<>> /\ pc # "l_delete")
         => /\ pc # "l_failed"
            /\ local.deletedCount + local.errorCount = Len(local.branchesToDelete)
    /\ Len(DeleteReferenceSeq) = remote.pos - 1
    /\ \A i \in 1..Len(DeleteReferenceSeq) :
         DeleteReferenceSeq[i].pr = remote.selectedBranches[i].pr.number
    /\ remote.deletedCount = CountOk(DeleteReferenceSeq, TRUE)
    /\ remote.errorCount = CountOk(DeleteReferenceSeq, FALSE)
    /\ (remote.selectedBranches # <<>> /\ pc # "r_delete")
         => /\ pc # "r_failed"
            /\ remote.deletedCount + remote.errorCount = Len(remote.selectedBranches)

\* A live local run has ended after a deletion that failed and a later one
\* that succeeded
C12_Witness ==
  /\ args.command = "local" /\ ~ args.dryRun
  /\ pc = "l_done"
  /\ Len(gitCalls) = 2
  /\ ~ gitCalls[1].ok /\ gitCalls[2].ok
  /\ local.errorCount = 1 /\ local.deletedCount = 1

\* The positions of event in the trace of the combined command
TraceAt(event) == {i \in 1..Len(all.trace) : all.trace[i] = event}

RemoteEnded == TraceAt("remote:done") \cup TraceAt("remote:failed")

\* C13: in the combined command the local handler is invoked at most once
\* and only right after the remote handler, invoked first, has settled
\* (resolved or rejected); once the remote handler has settled, the local
\* handler is the next thing to run or has run exactly once.
C13_LocalPhaseOnceAfterRemote ==
  args.command = "all" =>
    /\ Cardinality(TraceAt("local:start")) <= 1
    /\ Cardinality(TraceAt("remote:start")) <= 1
    /\ \A i \in TraceAt("local:start") :
         /\ i = 3
         /\ all.trace[1] = "remote:start"
         /\ 2 \in RemoteEnded
    /\ RemoteEnded # {} =>
         \/ pc = "l_start" /\ TraceAt("local:start") = {}
         \/ Cardinality(TraceAt("local:start")) = 1
    /\ (TraceAt("remote:start") # {} /\ pc \in {"a_exit", "exit0"})
         => Cardinality(TraceAt("local:start")) = 1

\* The combined command has ended after a remote phase that failed and a
\* local phase that deleted a branch
C13_Witness ==
  /\ args.command = "all"
  /\ pc = "a_exit"
  /\ all.trace = <<"remote:start", "remote:failed", "local:start", "local:done">>
  /\ \E i \in 1..Len(gitCalls) : gitCalls[i].ok

\* C14: when the combined command has run its phases and printed its
\* summary, it has called process.exit(1) if and only if the remote handler
\* and the local handler both rejected; with exactly one rejection it has
\* called process.exit(0); with none it returns normally, without an exit
\* call.  A combined run that ended inside the local prompt (Ctrl+C, status
\* 0) has no failed local phase.
C14_NonZeroExitIffBothFailed ==
  args.command = "all" =>
    LET remoteFailed == TraceAt("remote:failed") # {}
        localFailed == TraceAt("local:failed") # {}
    IN /\ pc = "a_exit" =>
            /\ (all.exitCode = Some(1)) <=> (remoteFailed /\ localFailed)
            /\ (remoteFailed # localFailed) => all.exitCode = Some(0)
            /\ (~ remoteFailed /\ ~ localFailed) => all.exitCode = None
       /\ pc = "exit0" => ~ localFailed
       /\ pc # "a_exit" => all.exitCode = None

\* The combined command has ended with status 1 after both phases failed
C14_Witness ==
  /\ args.command = "all"
  /\ pc = "a_exit"
  /\ all.trace = <<"remote:start", "remote:failed", "local:start", "local:failed">>
  /\ all.exitCode = Some(1)

\* The lookups of the run that reported not-found: a 404, or a list of sibling refs
NotFoundLookups == {i \in GetReferenceCalls : apiCalls[i].answer.kind # "ref"}

\* pr is merged and its head is in the base repository
MergedSameRepo(pr) ==
  /\ pr.merge_commit_sha # None
  /\ pr.head.repo = pr.base.repo

\* C15: in remote mode a lookup that reports not-found excludes its pull
\* request from the candidates and the collection moves on to the next pull
\* request; a lookup never makes the collection reject; and once the
\* collection is over every merged same-repository pull request of the
\* stream, before and after the not-found one, has had its lookup.
C15_NotFoundLookupIsSkipped ==
  /\ \A i \in NotFoundLookups :
       /\ remote.idx > apiCalls[i].pr
       /\ \A k \in 1..Len(remote.branchesToDelete) :
            remote.branchesToDelete[k].pr.number # apiCalls[i].pr
  /\ remote.error # Some("getReference")
  /\ (pc \in {"r_prompt", "r_delete", "r_done"}) =>
       \A n \in 1..Len(github.prs) :
         MergedSameRepo(github.prs[n]) => \E i \in GetReferenceCalls : apiCalls[i].pr = n

\* A run has ended successfully after a 404 for its first pull request and
\* the deletion of the second one's ref
C15_Witness ==
  /\ args.command = "remote"
  /\ pc = "r_done"
  /\ \E i \in NotFoundLookups : apiCalls[i].pr = 1 /\ apiCalls[i].answer.kind = "missing"
  /\ \E j \in DeleteReferenceCalls : apiCalls[j].pr = 2 /\ apiCalls[j].ok

\* The ahead count of the call in evalIn is unknown (the lookup threw, or
\* printed something that is not two counts, or a count that is not a
\* number) or the branch has no upstream
EvalAheadUnknown ==
  \/ Get(evalIn).git.kind \in {"throws", "malformed", "no-upstream"}
  \/ Get(evalIn).git.kind = "counts" /\ Get(evalIn).git.ahead = None

AnalysisEntryIsClean(a) ==
  /\ ~ a.branch.isCurrent
  /\ a.branch.name # local.currentBranch
  /\ ~ MatchesIgnoringCase(DEFAULT_PROTECTED_BRANCHES, a.branch.name)
  /\ repo.status[a.branch.name] = Some([ahead |-> 0, behind |-> 0])
  /\ IsSome(a.matchingPR)
  /\ Get(a.matchingPR).head.sha = a.branch.sha
  /\ IsSome(Get(a.matchingPR).merge_commit_sha)

\* The deleteLocalBranch calls of the run for the branch called name
DeleteCallsFor(name) == {i \in 1..Len(gitCalls) : gitCalls[i].branch = name}

\* C16: for a branch that is not current, not protected (by the list, a
\* pattern or a rule), with zero commits ahead, and a matching pull request
\* with the branch's SHA and a merge commit, the evaluator returns safe under
\* every configuration; a local run gives such a branch the verdict safe,
\* calls deleteLocalBranch for it at most once, and exactly once when the run
\* is a live force-mode run that has completed.
C16_CleanMergedBranchIsSafeAndDeletedOnce ==
  /\ (/\ IsSome(evalOut)
      /\ ~ EvalIsCurrent
      /\ ~ EvalNameGuard
      /\ Get(evalIn).branchStatus = Some([ahead |-> 0, behind |-> 0])
      /\ IsSome(Get(evalIn).matchingPR)
      /\ Get(Get(evalIn).matchingPR).head.sha = Get(evalIn).branch.sha
      /\ IsSome(Get(Get(evalIn).matchingPR).merge_commit_sha))
     => Get(evalOut) = Safe
  /\ pc # "idle" =>
       \A k \in 1..Len(local.branchAnalysis) :
         LET a == local.branchAnalysis[k] IN
         AnalysisEntryIsClean(a) =>
           /\ a.safetyCheck = Safe
           /\ Cardinality(DeleteCallsFor(a.branch.name)) <= 1
           /\ (args.force /\ ~ args.dryRun /\ pc \in {"l_done", "a_exit"})
                => Cardinality(DeleteCallsFor(a.branch.name)) = 1

\* The scenario: feat-1 at abc123, main checked out, pull request #1 merged
\* with head feat-1 at abc123; a live force-mode local run has completed with
\* one deleteLocalBranch call, for feat-1
C16_Witness ==
  /\ pc = "l_done"
  /\ args.command = "local" /\ args.force /\ ~ args.dryRun
  /\ local.currentBranch = nMain
  /\ Len(github.prs) = 1
  /\ \E k \in 1..Len(local.branchAnalysis) :
       /\ local.branchAnalysis[k].branch.name = nFeature1
       /\ AnalysisEntryIsClean(local.branchAnalysis[k])
       /\ Get(local.branchAnalysis[k].matchingPR).number = 1
  /\ gitCalls = <<[op |-> "deleteLocalBranch", branch |-> nFeature1, ok |-> TRUE]>>

\* The merged pull request the local command matches to the branch called
\* name: the last one of the stream with that head ref (<<>> when none)
LastMergedPR(name) ==
  LET S == {n \in 1..Len(github.prs) : /\ github.prs[n].merge_commit_sha # None
                                       /\ github.prs[n].head.ref = name}
  IN IF S = {} THEN None ELSE Some(github.prs[CHOOSE n \in S : \A m \in S : m <= n])

\* What a local run over this clone and this stream selects, mode left aside:
\* the scanned branches, in order, that the evaluator judges safe
ExpectedLocalSelection ==
  LET safe == SelectSeq(local.localBranches,
                LAMBDA b : isBranchSafeToDelete(b, local.currentBranch, LastMergedPR(b.name),
                                                None, repo.status[b.name]).safe)
  IN [i \in 1..Len(safe) |-> safe[i].name]

\* What a remote run over this stream and these refs selects, mode left
\* aside: the merged same-repository pull requests, in order, whose lookup
\* answered with the ref at the head SHA
ExpectedRemoteSelection ==
  SelectSeq(github.prs, LAMBDA pr : MergedSameRepo(pr) /\ LookedUpAt(pr.number, pr.head.sha))

NamesOf(reported) == [i \in 1..Len(reported) |-> reported[i].name]

LinesOf(reported) == {reported[i].line : i \in 1..Len(reported)}

LocalCompleted == pc = "l_done" \/ (pc = "a_exit" /\ all.localSuccess)

RemoteCompleted == pc = "r_done" \/ (args.command = "all" /\ all.remoteSuccess)

\* C18: a completed dry-run and a completed force-mode live run report the
\* same branches in the same order, namely the selection that the branches,
\* the stream and the refs determine whatever the mode is: the dry-run
\* reports each as "would delete" and counts as many, the live run attempts
\* one deletion call for each, in that order.
C18_DryRunSelectsWhatForceDeletes ==
  (args.dryRun \/ args.force) =>
    /\ LocalCompleted =>
         /\ NamesOf(local.reported) = ExpectedLocalSelection
         /\ args.dryRun =>
              /\ LinesOf(local.reported) \subseteq {"would-delete"}
              /\ local.deletedCount = Len(ExpectedLocalSelection)
         /\ ~ args.dryRun =>
              /\ [i \in 1..Len(gitCalls) |-> gitCalls[i].branch] = ExpectedLocalSelection
              /\ LinesOf(local.reported) \subseteq {"deleted", "error"}
    /\ RemoteCompleted =>
         /\ NamesOf(remote.reported)
              = [i \in 1..Len(ExpectedRemoteSelection) |->
                   HeadsRef(ExpectedRemoteSelection[i].head.ref)]
         /\ args.dryRun =>
              /\ LinesOf(remote.reported) \subseteq {"would-delete"}
              /\ remote.deletedCount = Len(ExpectedRemoteSelection)
         /\ ~ args.dryRun =>
              /\ [i \in 1..Len(DeleteReferenceSeq) |-> DeleteReferenceSeq[i].pr]
                   = [i \in 1..Len(ExpectedRemoteSelection) |-> ExpectedRemoteSelection[i].number]
              /\ LinesOf(remote.reported) \subseteq {"deleted", "error"}

\* A local dry-run has completed with two branches reported as "would
\* delete" and a third branch left out as unsafe
C18_Witness ==
  /\ args.command = "local" /\ args.dryRun
  /\ pc = "l_done"
  /\ Len(local.reported) = 2
  /\ local.deletedCount = 2
  /\ Len(local.localBranches) = 3


(***************************************************************************)
(* Properties of promptWithCancel (checked under SpecPrompt)               *)
(***************************************************************************)
\* The events that can settle the call: an Escape keypress and the two
\* callbacks of inquirer.prompt
IsSettlingEvent(e) ==
  \/ e.ev \in {"then", "catch"}
  \/ e.ev = "keypress" /\ e.arg = <<"escape">>

\* Position of the first settling event of the call, 0 when there is none
FirstSettling ==
  LET ev == Get(prompt).events
      S == {i \in 1..Len(ev) : IsSettlingEvent(ev[i])}
  IN IF S = {} THEN 0 ELSE CHOOSE i \in S : \A j \in S : i <= j

\* C19: promptWithCancel settles exactly once. The first of the Escape
\* keypress and the prompt's own completion fixes the result (null for
\* Escape, the answers for completion) and what is on the terminal; every
\* later event leaves both alone, so an Escape handled after the prompt has
\* resolved changes no result and writes nothing.
C19_PromptSettlesOnce ==
  IsSome(prompt) =>
    LET p == Get(prompt)
        first == IF FirstSettling = 0 THEN [ev |-> "none", arg |-> <<>>]
                 ELSE p.events[FirstSettling]
    IN /\ p.settles <= 1
       /\ p.settles = 1 <=> IsSome(p.outcome)
       /\ first.ev = "none" => p.outcome = None /\ p.stdout = <<>>
       /\ first.ev = "keypress" =>
            /\ p.outcome = Some([kind |-> "resolved", value |-> None])
            /\ p.stdout = <<"\n">>
       /\ first.ev = "then" =>
            /\ p.outcome = Some([kind |-> "resolved", value |-> first.arg])
            /\ p.stdout = <<>>
       /\ first.ev = "catch" =>
            IF isForceClose(first.arg[1])
            THEN p.exited /\ p.outcome = None /\ p.stdout = <<"\n">>
            ELSE /\ p.outcome = Some([kind |-> "rejected", value |-> first.arg])
                 /\ p.stdout = <<>>

\* The prompt resolved with answers, an Escape keypress was handled after
\* that, and the call still holds the answers with nothing written
C19_Witness ==
  /\ IsSome(prompt)
  /\ Len(Get(prompt).events) >= 2
  /\ Get(prompt).events[1].ev = "then"
  /\ Get(prompt).events[2] = [ev |-> "keypress", arg |-> <<"escape">>]
  /\ Get(prompt).outcome = Some([kind |-> "resolved", value |-> Get(prompt).events[1].arg])
  /\ Get(prompt).stdout = <<>>


\* The reasons the evaluator can give for the call in evalIn whatever the
\* configuration is; the unpushed reason carries the call's ahead count
EvalBuiltInReasons ==
  {"current branch", "protected branch", "SHA mismatch with PR head", "PR was not merged"}
    \cup (IF IsSome(Get(evalIn).branchStatus) /\ Get(evalIn).branchStatus[1].ahead > 0
          THEN {UnpushedReason(Get(evalIn).branchStatus[1].ahead)}
          ELSE {})

\* The reasons the configuration of the call in evalIn adds: one per
\* protected pattern and the reason of each custom safety rule
EvalConfiguredReasons ==
  LET effectiveConfig == getEffectiveSafetyConfig(Get(evalIn).config)
      patterns == effectiveConfig.additionalProtectedPatterns
      rules == effectiveConfig.customSafetyRules
  IN {"matches protected pattern: " \o JoinChars(patterns[i]) : i \in 1..Len(patterns)}
       \cup {rules[i].reason : i \in 1..Len(rules)}

VerdictHasReason(v) == "reason" \in DOMAIN v

\* C20 (as stated): a verdict carries a reason if and only if it is unsafe,
\* and every reason is one of "current branch", "protected branch",
\* "release/hotfix branch", "SHA mismatch with PR head", "PR was not merged"
\* or "N unpushed commit(s)" with N the ahead count.
C20_ReasonIffUnsafeInTaxonomy ==
  IsSome(evalOut) =>
    /\ VerdictHasReason(Get(evalOut)) <=> ~ Get(evalOut).safe
    /\ VerdictHasReason(Get(evalOut)) =>
         Get(evalOut).reason \in EvalBuiltInReasons \cup {"release/hotfix branch"}

\* C20 (amended): a verdict carries a reason if and only if it is unsafe, and
\* every reason is "current branch", "protected branch", "SHA mismatch with
\* PR head", "PR was not merged", "N unpushed commit(s)" with N the ahead
\* count, or one the configuration supplies: "matches protected pattern:
\* PATTERN" for a configured protected pattern, or the reason of a
\* configured custom safety rule.
C20_ReasonIffUnsafeInConfiguredTaxonomy ==
  IsSome(evalOut) =>
    /\ VerdictHasReason(Get(evalOut)) <=> ~ Get(evalOut).safe
    /\ VerdictHasReason(Get(evalOut)) =>
         Get(evalOut).reason \in EvalBuiltInReasons \cup EvalConfiguredReasons

\* An unsafe verdict whose reason names the configured pattern that matched
C20_Witness ==
  /\ IsSome(evalOut)
  /\ ~ Get(evalOut).safe
  /\ VerdictHasReason(Get(evalOut))
  /\ Get(evalOut).reason = "matches protected pattern: ^wip"


\* C29: however promptWithCancel finishes (the answers, null after Escape,
\* or the prompt's error), once its finally callback has run the keypress
\* listener it installed is removed and process.stdin's raw mode is the one
\* the call found on entry.
C29_FinishedPromptLeavesStdinAsFound ==
  (IsSome(prompt) /\ Get(prompt).cleaned) =>
    /\ IsSome(Get(prompt).outcome)
    /\ ~ Get(prompt).listener
    /\ Get(prompt).isRaw = Get(prompt).rawOnEntry

\* On a terminal that was not in raw mode, a call cancelled with Escape has
\* finished: raw mode was switched on by the call and is off again
C29_Witness ==
  /\ IsSome(prompt)
  /\ Get(prompt).cleaned
  /\ Get(prompt).isTTY /\ ~ Get(prompt).rawOnEntry
  /\ Get(prompt).outcome = Some([kind |-> "resolved", value |-> None])
  /\ ~ Get(prompt).listener /\ ~ Get(prompt).isRaw


(***************************************************************************)
(* Properties of expandDefaultPlaceholder (checked under SpecExpand)       *)
(***************************************************************************)
NoDuplicates(s) == \A i, j \in 1..Len(s) : s[i] = s[j] => i = j

\* list with every placeholder replaced by all the defaults, nothing removed
RECURSIVE Substituted(_)
Substituted(list) ==
  IF list = <<>> THEN <<>>
  ELSE (IF Head(list) = GHOULS_DEFAULT_PLACEHOLDER
        THEN DEFAULT_PROTECTED_BRANCHES_WITH_GLOBS ELSE <<Head(list)>>)
       \o Substituted(Tail(list))

\* The entries of s at their first occurrence, in order
FirstOccurrences(s) ==
  LET keep == {i \in 1..Len(s) : \A j \in 1..(i - 1) : s[j] # s[i]}
      nth(k) == CHOOSE i \in keep : Cardinality({j \in keep : j < i}) = k - 1
  IN [k \in 1..Cardinality(keep) |-> s[nth(k)]]

\* C22: the expanded list holds no entry twice.  It is the configured list
\* with each placeholder replaced in place by the defaults, every entry kept
\* at its first position only: a default already present earlier is not
\* added again, a later placeholder adds nothing, and the custom entries
\* stay in their relative order.
C22_ExpansionHasNoDuplicates ==
  (IsSome(expand) /\ IsSome(Get(expand).result)) =>
    LET result == Get(expand).result[1]
    IN /\ NoDuplicates(result)
       /\ result = FirstOccurrences(Substituted(Get(expand).branches))
       /\ GHOULS_DEFAULT_PLACEHOLDER \notin SeqToSet(result)

\* [placeholder, custom, placeholder] has been expanded: the defaults once,
\* then the custom entry
C22_Witness ==
  /\ IsSome(expand)
  /\ Get(expand).branches = <<GHOULS_DEFAULT_PLACEHOLDER, nCustom, GHOULS_DEFAULT_PLACEHOLDER>>
  /\ Get(expand).result = Some(Append(DEFAULT_PROTECTED_BRANCHES_WITH_GLOBS, nCustom))


(***************************************************************************)
(* Properties of loadSafetyConfig (checked under SpecConfig)               *)
(***************************************************************************)
\* The highest-precedence path whose file has a safety section defining the
\* field (0 when no file does); pick reads the field
FirstDefining(files, pick(_)) ==
  LET S == {i \in 1..Len(files) : files[i].kind = "safety" /\ IsSome(pick(files[i].safety))}
  IN IF S = {} THEN 0 ELSE CHOOSE i \in S : \A j \in S : i <= j

\* C25: when several files define protectedBranches or allowUnpushedCommits,
\* loadSafetyConfig returns the value of the highest-precedence file that
\* defines it; a lower-precedence file never overrides it.
C25_HighestPrecedenceSourceWins ==
  (IsSome(loaded) /\ IsSome(Get(loaded).result) /\ Get(loaded).result[1].kind = "config") =>
    LET files == Get(loaded).files
        config == Get(loaded).result[1].config
        pb == FirstDefining(files, LAMBDA c : c.protectedBranches)
        au == FirstDefining(files, LAMBDA c : c.allowUnpushedCommits)
    IN /\ pb # 0 => config.protectedBranches = files[pb].safety.protectedBranches
       /\ au # 0 => config.allowUnpushedCommits = files[au].safety.allowUnpushedCommits


(***************************************************************************)
(* Properties of processBatches (checked under SpecBatch)                  *)
(***************************************************************************)
\* The positions for which pick holds, in increasing order
PositionsWhere(n, pick(_)) ==
  LET S == {i \in 1..n : pick(i)}
      nth(k) == CHOOSE i \in S : Cardinality({j \in S : j < i}) = k - 1
  IN [k \in 1..Cardinality(S) |-> nth(k)]

\* C27: when processBatches returns, every item is accounted for exactly
\* once: processed results plus recorded errors are as many as the items, the
\* results are in input order, and the errors are exactly the items the
\* processor fails on when it is given them alone; an item of a batch whose
\* whole-batch call threw was given to the processor alone right after it.
C27_EveryItemAccountedOnce ==
  (IsSome(batch) /\ Get(batch).i >= Len(Get(batch).items)) =>
    LET b == Get(batch)
        n == Len(b.items)
    IN /\ Len(b.results) + Len(b.errors) = n
       /\ b.results = PositionsWhere(n, LAMBDA i : b.items[i] # "throws")
       /\ b.errors = PositionsWhere(n, LAMBDA i : b.items[i] = "throws")
       /\ \A c \in 1..Len(b.calls) :
            (Len(b.calls[c]) > 1 /\ processorThrows(b.items, b.calls[c])) =>
              \A k \in 1..Len(b.calls[c]) :
                /\ c + k <= Len(b.calls)
                /\ b.calls[c + k] = <<b.calls[c][k]>>

\* A call over four items in batches of two has returned: the first batch
\* threw as a whole and both its items succeeded alone, the second batch
\* threw and one of its items failed alone
C27_Witness ==
  /\ IsSome(batch)
  /\ Get(batch).items = <<"throws-in-batch", "ok", "throws", "ok">>
  /\ Get(batch).batchSize = 2
  /\ Get(batch).i >= 4
  /\ Get(batch).results = <<1, 2, 4>>
  /\ Get(batch).errors = <<3>>
  /\ Len(Get(batch).calls) = 6


(***************************************************************************)
(* Properties of the optimized local run (checked under SpecOptimized)     *)
(***************************************************************************)
\* The cap is on and the stream holds more pull requests than it lets through
CapLeavesPRsUnread ==
  /\ Get(opt).processingPlan.limitPRFetch
  /\ Get(opt).streamLength > maxPRsOf(Get(opt).processingPlan)

PositionsOf(output, lines) == {k \in 1..Len(output) : output[k] \in lines}

\* C21: in a run whose cap leaves at least one pull request of the stream
\* unread, the notice that the pull requests were limited is printed once the
\* reading is over, ahead of every line of the deletion stage and of every
\* deleteLocalBranch call.
C21_CapIsAnnouncedBeforeDeletion ==
  (IsSome(opt) /\ CapLeavesPRsUnread) =>
    LET o == Get(opt)
        notices == PositionsOf(o.output, {"limited"})
        deletions == PositionsOf(o.output, {"would-delete", "deleted", "error"})
    IN /\ o.pc \in {"analyze", "delete", "done"} => notices # {}
       /\ (deletions # {} \/ o.calls # <<>>) =>
            \E n \in notices : \A d \in deletions : n < d

\* 51 branches make the cap 500; the stream held 501 pull requests, 500 were
\* read, the notice was printed and branches were deleted after it
C21_Witness ==
  /\ IsSome(opt)
  /\ Get(opt).branchCount = 51 /\ Get(opt).streamLength = 501
  /\ Get(opt).prCount = 500
  /\ Get(opt).pc = "done"
  /\ Get(opt).output[1] = "limited"
  /\ Len(Get(opt).calls) = 2


\* What walking the list branchesToDelete in order, one branch after the
\* other, comes to, whichever loop does it: the calls, and the two counts
ExpectedCalls(o) == IF o.dryRun THEN <<>> ELSE [k \in 1..o.branchesToDelete |-> k]

ExpectedErrorCount(o) == IF o.dryRun THEN 0 ELSE Cardinality(o.failing)

\* C28: the batched path and the sequential path do the same with the same
\* list, the same dry-run flag and the same outcomes of deleteLocalBranch:
\* one call per branch, in list order, one after the other (none in a dry
\* run), and the same deleted and error counts.  Each finished run is held
\* against what the list, the flag and the outcomes determine, so two runs
\* that differ in the path alone end alike.
C28_BatchedPathEqualsSequentialPath ==
  IsSome(opt) =>
    LET o == Get(opt)
    IN /\ o.pc = "done" /\ o.path # "none" =>
            /\ o.calls = ExpectedCalls(o)
            /\ o.errorCount = ExpectedErrorCount(o)
            /\ o.deletedCount = o.branchesToDelete - ExpectedErrorCount(o)
       /\ \A k \in 1..Len(o.calls) : o.calls[k] = k

\* A batched live run over 52 branches has finished in two slices, with the
\* first and the 51st deletion failing
C28_Witness ==
  /\ IsSome(opt)
  /\ Get(opt).path = "batched" /\ ~ Get(opt).dryRun
  /\ Get(opt).pc = "done"
  /\ Get(opt).branchesToDelete = 52 /\ Get(opt).failing = {1, 51}
  /\ Get(opt).processingPlan.batchSize = 51
  /\ Len(Get(opt).calls) = 52
  /\ Get(opt).deletedCount = 50 /\ Get(opt).errorCount = 2


(***************************************************************************)
(* Properties of the enhanced selection prompt (checked under SpecSelect)  *)
(***************************************************************************)
\* C30: an "Individual selection" made while a search filter is active
\* changes the state of the items the filter shows and of no other: every
\* item outside the filter is selected after it if and only if it was
\* selected before it, whatever search, bulk and individual actions came
\* earlier.
C30_IndividualSelectionKeepsHiddenItems ==
  (IsSome(picker) /\ Get(picker).lastAction = "individual") =>
    \A v \in ValuesOf(PickerChoices) \ Get(picker).shownBefore :
      v \in Get(picker).selectedItems <=> v \in Get(picker).selectedBefore


(***************************************************************************)
(* Properties of the remote command's calls (checked under Spec)           *)
(***************************************************************************)
\* C24: in one remote run deleteReference is called at most once per head
\* ref, also when several merged pull requests of the repository share the
\* head ref and the head SHA.
C24_OneDeleteReferencePerHeadRef ==
  \A i, j \in DeleteReferenceCalls : apiCalls[i].ref = apiCalls[j].ref => i = j

\* C26: in a remote run every ref lookup precedes the first deleteReference
\* call, and a deleteReference call is made only after the whole stream of
\* pull requests has been consumed, so that no lookup and no fetch of pull
\* requests follows a deletion call.
C26_CollectionPrecedesDeletion ==
  /\ \A i \in GetReferenceCalls, j \in DeleteReferenceCalls : i < j
  /\ DeleteReferenceCalls # {} =>
       /\ remote.idx > Len(github.prs)
       /\ pc # "r_collect"

\* Two pull requests were looked up, and both refs were then deleted
C26_Witness ==
  /\ args.command = "remote"
  /\ Len(github.prs) = 2
  /\ Cardinality(GetReferenceCalls) = 2
  /\ Cardinality(DeleteReferenceCalls) = 2
  /\ \A j \in DeleteReferenceCalls : apiCalls[j].ok
  /\ pc = "r_done"


(***************************************************************************)
(* Properties of the remote command under concurrent pushes (SpecRace)     *)
(***************************************************************************)
\* C23: in remote mode, when deleteReference is called for a ref that
\* exists, the ref is at the head SHA the pull request records, also when
\* another actor moves the ref between the lookup and the deletion call.
C23_DeletedRefIsAtPRHeadSha ==
  \A j \in DeleteReferenceCalls :
    apiCalls[j].answer.kind = "ref" =>
      apiCalls[j].answer.sha = github.prs[apiCalls[j].pr].head.sha

====
